---- MODULE Spec2Model ----
(***************************************************************************)
(* Model of finit's configuration engine, src/src/conf.c: the reload pass  *)
(* (conf_reload), the file parser (parse_conf and the parse_static /       *)
(* parse_dynamic / parse_env dispatch), the resource-limit tables, the     *)
(* current-cgroup context and the change-tracking list fed by inotify.     *)
(*                                                                         *)
(* The configuration tree is an input: every line a file yields and the    *)
(* result of every fopen, lstat, glob and realpath are drawn, at the       *)
(* moment the code asks for them, from the small sets below.               *)
(***************************************************************************)
EXTENDS Naturals, Sequences, FiniteSets, TLC

\* ------------------------------------------------------------------ bounds
\* Lines the configuration tree yields to one pass, over all its files.
MaxLines == 3
\* parse_conf activations (include nesting) the process stack can hold.
MaxDepth == 2
\* Nodes of env_list tracked within one pass.
MaxEnv == 1

\* ------------------------------------------------------------- input sets
\* rlimit_names[], conf.c:582-603
RlimitNames ==
    {"as", "core", "cpu", "data", "fsize", "locks", "memlock", "msgqueue",
     "nice", "nofile", "nproc", "rss", "rtprio", "rttime", "sigpending", "stack"}

\* RLIM_INFINITY, kept apart from every value strtonum() returns here.
RLIM_INFINITY == 99

\* Files.  A file is a directory tag and a basename.
File(d, b) == [dir |-> d, base |-> b]
NullFile == File("", "")
finit_conf == File("etc", "finit.conf")
RESCUE_CONF == File("lib", "rescue.conf")
IncFile == File("inc", "x.conf")
\* Basenames found in the layered directories, in glob()'s sorted order.
BasenameSeq == <<"a.conf">>
Basenames == {BasenameSeq[i] : i \in 1..Len(BasenameSeq)}

\* Tokens after "rlimit " that the passes draw from.
RlimitLines ==
    { <<"soft", "nofile", "1">>,
      <<"bogus", "1">> }

\* Names drawn for "cgroup NAME ..." declarations.
CgroupNames == {"g1"}
\* Names with a '/' or ".." in them.
IllegalNames == {"a/b"}
\* Names drawn for "cgroup.NAME" lines; LongName has more than 15 characters.
LongName == "averyveryverylongname"
LongName15 == "averyveryverylo"
CtxNames == {"c1", LongName}
\* Units drawn for service/task/run/sysv/tty lines.
UnitNames == {"u1"}
\* Unit lines drawn in an instantiated template besides, and every name a
\* unit line can come to after instantiate().
TemplateUnits == {"u%i"}
AllUnits == UnitNames \cup TemplateUnits \cup {"un", "uN64"}
UnitTypes == {"service"}
RescueTty == "tty [12345789] rescue"
\* KEY=VALUE lines.
EnvKeys == {"FOO"}
\* The variables conf_reset_env() exports, conf.c:354-357, and their values.
FixedEnvNames == {"PATH", "SHELL", "LOGNAME", "USER"}
PATH_STDPATH == "_PATH_STDPATH"
PATH_BSHELL == "_PATH_BSHELL"
\* The names the process environment is followed for.
EnvNames == EnvKeys \cup {"BAR"} \cup FixedEnvNames

\* Paths (directory and name pasted) that inotify events name.
Paths == {"p"}
Masks == {"IN_CREATE", "IN_DELETE"}

VARIABLES
    pc,              \* where the single thread is
    phase,           \* which top-level parse_conf call is running
    rcv,             \* return value of the finished top-level parse_conf
    stack,           \* parse_conf activations, innermost last
    rescue,          \* rescue flag from the command line
    initial_rlimit,  \* conf.c:62
    global_rlimit,   \* conf.c:63
    cgroup_current,  \* conf.c:68
    env_list,        \* conf.c:60, head first
    environ,         \* the process environment, for EnvKeys
    cgroups,         \* the cgroup manager's table
    svcs,            \* the service registry
    gl,              \* glob_t gl of conf_reload
    gi,              \* index i of conf_reload's loop (1-based)
    conf_change_list,\* conf.c:79, head first
    ret,             \* what conf_reload has just returned
    nread,           \* lines read so far in this pass
    \* history, read by properties only
    pass,            \* facts about the current pass
    lastReg,         \* the service_register call of the last step, if any
    trail,           \* conf_change_act calls since the last pass
    \* one call of a function of conf.c taken on its own
    call,            \* the function and its arguments
    rv               \* what it returned, once it has

vars == <<pc, phase, rcv, stack, rescue, initial_rlimit, global_rlimit,
          cgroup_current, env_list, environ, cgroups, svcs, gl, gi,
          conf_change_list, ret, nread, pass, lastReg, trail, call, rv>>
\* The variables of a configuration pass.
confvars == <<pc, phase, rcv, stack, rescue, initial_rlimit, global_rlimit,
              cgroup_current, env_list, environ, cgroups, svcs, gl, gi,
              conf_change_list, ret, nread, pass, lastReg, trail>>

\* ----------------------------------------------------------------- tables
Limit(c, m) == [cur |-> c, max |-> m]
ZeroTable == [r \in RlimitNames |-> Limit(0, 0)]
\* What getrlimit() reports in conf_init.
InitTables == { [r \in RlimitNames |-> Limit(3, 4)] }

\* Decimal numerals the model draws, with their values; any other string
\* is either no numeral or one above every upper bound a caller passes.
Numerals ==
    {"-1", "0", "1", "2", "3", "5", "6", "9", "10", "60", "61", "1024", "1440", "1441"}
NumeralValue(s) ==
    CASE s = "-1"   -> 0 - 1
      [] s = "0"    -> 0
      [] s = "1"    -> 1
      [] s = "2"    -> 2
      [] s = "3"    -> 3
      [] s = "5"    -> 5
      [] s = "6"    -> 6
      [] s = "9"    -> 9
      [] s = "10"   -> 10
      [] s = "60"   -> 60
      [] s = "61"   -> 61
      [] s = "1024" -> 1024
      [] s = "1440" -> 1440
      [] s = "1441" -> 1441

\* strtonum(s, minval, maxval, &err): the value and no error when s is a
\* numeral within the bounds, else 0 and an error.
strtonum(s, minval, maxval) ==
    IF s \in Numerals /\ NumeralValue(s) >= minval /\ NumeralValue(s) <= maxval
    THEN [err |-> FALSE, num |-> NumeralValue(s)]
    ELSE [err |-> TRUE, num |-> 0]

\* The upper bound conf_parse_rlimit() hands to strtonum(), (long long)2 << 31
\* in the source; the checker's integers end at 2^31 - 1, and every numeral
\* drawn is either below both or above both.
RLIM_STRTONUM_MAX == 2147483647

\* Every name taken for a resource.
str2rlim_any(s) == IF s \in RlimitNames THEN s ELSE "core"

\* str2rlim(): the resource, or "-1".
str2rlim(s) == IF s \in RlimitNames THEN s ELSE "-1"

\* Every level taken for both.
rlimit_set_both(arr, resource, level, cfg) ==
    [arr EXCEPT ![resource] = Limit(cfg, cfg)]

\* conf.c:690-700: the bound or bounds of arr[resource] that the level names
\* are set to cfg; any other level is an error and sets nothing.
rlimit_set(arr, resource, level, cfg) ==
    IF level = "soft"
    THEN [arr EXCEPT ![resource].cur = cfg]
    ELSE IF level = "hard"
    THEN [arr EXCEPT ![resource].max = cfg]
    ELSE IF level = "both"
    THEN [arr EXCEPT ![resource] = Limit(cfg, cfg)]
    ELSE arr

\* conf_parse_rlimit(line, arr) on the tokens strtok() cuts the line into.
conf_parse_rlimit(line, arr) ==
    IF Len(line) < 2 THEN arr
    ELSE
      LET three == Len(line) >= 3
          level == IF three THEN line[1] ELSE "both"
          limit == IF three THEN line[2] ELSE line[1]
          val   == IF three THEN line[3] ELSE line[2]
          resource == str2rlim(limit)
          unl == val \in {"unlimited", "infinity"}
          n   == strtonum(val, 0, RLIM_STRTONUM_MAX)
          cfg == IF unl THEN RLIM_INFINITY ELSE n.num
      IN  IF resource = "-1" THEN arr
          ELSE IF ~unl /\ n.err THEN arr
          ELSE rlimit_set(arr, resource, level, cfg)

\* ----------------------------------------------------- conf_parse_runlevels
\* A string is the sequence of its characters; the terminating NUL is the
\* position after the last.  NULL is the null pointer.
NULL == <<"NULL">>
\* Character codes of the characters drawn.
Ord(c) ==
    CASE c = " " -> 32 [] c = "!" -> 33 [] c = "/" -> 47
      [] c = "0" -> 48 [] c = "1" -> 49 [] c = "2" -> 50 [] c = "3" -> 51
      [] c = "4" -> 52 [] c = "5" -> 53 [] c = "6" -> 54 [] c = "7" -> 55
      [] c = "8" -> 56 [] c = "9" -> 57 [] c = ":" -> 58
      [] c = "S" -> 83 [] c = "[" -> 91 [] c = "]" -> 93
      [] c = "a" -> 97 [] c = "s" -> 115

\* INIT_LEVEL comes from a header; conf.c:495 and 511 fix it: the mask 0x7FE
\* of "[!123456789S]" has bits 1 to 10, and S is none of 1 to 9.
INIT_LEVEL == 10

\* SETBIT(), CLRBIT() and ISSET() on an int.
ISSET(m, n) == (m \div (2 ^ n)) % 2 = 1
SETBIT(m, n) == IF ISSET(m, n) THEN m ELSE m + 2 ^ n
CLRBIT(m, n) == IF ISSET(m, n) THEN m - 2 ^ n ELSE m

\* The mask of the ten levels 0 to 9.
NOT_MASK_ten == 2 ^ 10 - 1

\* conf.c:511: bitmask = 0x7FE
NOT_MASK == 2046

\* The digit read one too low.
char_level_low(lvl) ==
    IF lvl \in {"s", "S"} THEN INIT_LEVEL ELSE Ord(lvl) - Ord("1")

\* conf.c:515-518: the level a character stands for.
char_level(lvl) ==
    IF lvl \in {"s", "S"} THEN INIT_LEVEL ELSE Ord(lvl) - Ord("0")

\* conf.c:503-527: the loop, standing at runlevels[i - 1] in C's counting.
RECURSIVE runlevels_loop(_, _, _, _)
runlevels_loop(runlevels, i, not, bitmask) ==
    IF i > Len(runlevels) \/ runlevels[i] = "]" THEN bitmask
    ELSE IF runlevels[i] = "!" THEN runlevels_loop(runlevels, i + 1, TRUE, NOT_MASK)
    ELSE LET level == char_level(runlevels[i])
         IN  IF level > INIT_LEVEL \/ level < 0
             THEN runlevels_loop(runlevels, i + 1, not, bitmask)
             ELSE runlevels_loop(runlevels, i + 1, not,
                                 IF not THEN CLRBIT(bitmask, level)
                                        ELSE SETBIT(bitmask, level))

\* conf_parse_runlevels(runlevels), conf.c:496-530.
conf_parse_runlevels(runlevels) ==
    runlevels_loop(IF runlevels = NULL THEN <<"[", "2", "3", "4", "]">> ELSE runlevels,
                   2, FALSE, 0)

\* ------------------------------------------------- instantiate, is_template
\* strchr(s + pos - 1, c) and strstr(s, t) as 1-based positions in s, 0 for
\* a null result.
strchr(str, pos, c) ==
    LET hits == {k \in pos..Len(str) : str[k] = c}
    IN  IF hits = {} THEN 0 ELSE CHOOSE k \in hits : \A h \in hits : k <= h
strstr(str, t) ==
    LET hits == {k \in 1..(Len(str) - Len(t) + 1) : SubSeq(str, k, k + Len(t) - 1) = t}
    IN  IF hits = {} THEN 0 ELSE CHOOSE k \in hits : \A h \in hits : k <= h

\* conf.c:927-930: the count of the first loop, one for every position of
\* pos at or before the last '%'.
RECURSIVE instantiate_count(_, _, _)
instantiate_count(line, pos, num) ==
    IF strchr(line, pos, "%") = 0 THEN num
    ELSE instantiate_count(line, pos + 1, num + 1)

\* conf.c:944: pos += strlen(name)
instantiate_advance(pos, ptr, name) == pos + Len(name)

\* conf.c:937-948: the second loop, with `size` bytes allocated.  A line
\* that outgrows them has been written past the end of the buffer.
OVERRUN == <<"OVERRUN">>
RECURSIVE instantiate_loop(_, _, _, _)
instantiate_loop(line, pos, name, size) ==
    LET ptr == strchr(line, pos, "%")
    IN  IF ptr = 0 THEN line
        ELSE IF ptr < Len(line) /\ line[ptr + 1] = "i"
        THEN LET new == SubSeq(line, 1, ptr - 1) \o name
                            \o SubSeq(line, ptr + 2, Len(line))
             IN  IF Len(new) + 1 > size THEN OVERRUN
                 ELSE instantiate_loop(new, instantiate_advance(pos, ptr, name),
                                       name, size)
        ELSE instantiate_loop(line, pos + 1, name, size)

\* What realloc() gives instantiate.
ReallocOutcomes == {"ok", "fail"}

\* instantiate(line, name), conf.c:920-953.
instantiate(line, name, mem) ==
    IF name = << >> THEN line
    ELSE IF mem = "fail" THEN line
    ELSE instantiate_loop(line, 1, name,
             Len(line) + instantiate_count(line, 1, 0) * Len(name) + 1)

\* sizeof(name) in parse_conf, conf.c:979
NAME_SIZE == 65

Min(a, b) == IF a < b THEN a ELSE b
DotConf == <<".", "c", "o", "n", "f">>

\* Every file taken for a plain one.
is_template_never(file, len) == [ret |-> 0, name |-> << >>]

\* is_template(file, name, len), conf.c:955-974: what it returns and what
\* it leaves in name, which the caller has zeroed.
is_template(file, len) ==
    LET at == strchr(file, 1, "@")
        nm == SubSeq(file, at + 1, Len(file))
        ptr == strstr(nm, DotConf)
    IN  IF at = 0 THEN [ret |-> 0, name |-> << >>]
        ELSE IF nm = DotConf \/ ptr = 0 THEN [ret |-> 1, name |-> << >>]
        ELSE [ret |-> 1, name |-> SubSeq(nm, 1, Min(ptr - 1, len - 1))]

\* ---------------------------------------------------------------- strings
\* The characters of the names and lines whose spelling matters.  A path
\* is its directory, drawn without an '@' in it, a '/' and the basename.
Run(c, n) == [k \in 1..n |-> c]
Chars(str) ==
    CASE str = "finit.conf"  -> <<"f", "i", "n", "i", "t">> \o DotConf
      [] str = "rescue.conf" -> <<"r", "e", "s", "c", "u", "e">> \o DotConf
      [] str = "a.conf"      -> <<"a">> \o DotConf
      [] str = "x.conf"      -> <<"x">> \o DotConf
      [] str = "t@.conf"     -> <<"t", "@">> \o DotConf
      [] str = "t@n.conf"    -> <<"t", "@", "n">> \o DotConf
      [] str = "t@N65.conf"  -> <<"t", "@">> \o Run("n", 65) \o DotConf
      [] str = "t@n.sh"      -> <<"t", "@", "n", ".", "s", "h">>
      [] str = "u1"          -> <<"u", "1">>
      [] str = "u%i"         -> <<"u", "%", "i">>
      [] str = "un"          -> <<"u", "n">>
      [] str = "uN64"        -> <<"u">> \o Run("n", 64)
      [] str = "uN65"        -> <<"u">> \o Run("n", 65)
      [] str = "g1"          -> <<"g", "1">>
      [] str = "g.1"         -> <<"g", ".", "1">>
      [] str = "a/b"         -> <<"a", "/", "b">>
      [] str = "a..b"        -> <<"a", ".", ".", "b">>
      [] str = ".."          -> <<".", ".">>
      [] str = ""            -> << >>
      [] str = "set"         -> <<"s", "e", "t">>
      [] str = "hostname"    -> <<"h", "o", "s", "t", "n", "a", "m", "e">>
      [] str = "include"     -> <<"i", "n", "c", "l", "u", "d", "e">>
      [] str = "service"     -> <<"s", "e", "r", "v", "i", "c", "e">>
      [] str = "runlevel"    -> <<"r", "u", "n", "l", "e", "v", "e", "l">>
      [] str = "reboot-delay" ->
            <<"r", "e", "b", "o", "o", "t", "-", "d", "e", "l", "a", "y">>
      [] str = "service-interval" ->
            <<"s", "e", "r", "v", "i", "c", "e", "-", "i", "n", "t", "e", "r", "v", "a", "l">>
      [] str = "k=v"         -> <<"k", "=", "v">>
      [] str = "x1"          -> <<"x", "1">>
      [] str = "x2"          -> <<"x", "2">>
      [] str = "0"           -> <<"0">>
      [] str = "3"           -> <<"3">>
      [] str = "6"           -> <<"6">>
      [] str = "10"          -> <<"1", "0">>
      [] str = "60"          -> <<"6", "0">>
      [] str = "61"          -> <<"6", "1">>
      [] str = "1440"        -> <<"1", "4", "4", "0">>
      [] str = "1441"        -> <<"1", "4", "4", "1">>
      [] str = "5"           -> <<"5">>
      [] str = "rescue"      -> <<"r", "e", "s", "c", "u", "e">>
      [] str = "single"      -> <<"s", "i", "n", "g", "l", "e">>
      [] str = "finit.3"     -> <<"f", "i", "n", "i", "t", ".", "3">>
      [] str = "fsck.3"      -> <<"f", "s", "c", "k", ".", "3">>
PathChars(file) == <<"/">> \o Chars(file.base)
\* The unit lines there are, and the one a sequence of characters spells.
LineStrings == {"u1", "u%i", "un", "uN64", "uN65"}
Str(text) == CHOOSE str \in LineStrings : Chars(str) = text

\* conf.c:982-987: parse_conf returns 0 before it opens the file.
Skipped(file) ==
    LET t == is_template(PathChars(file), NAME_SIZE)
    IN  t.ret = 1 /\ t.name = << >>

\* ---------------------------------------------------------- parse_static
\* The settings parse_static reads and writes, conf.c:53-77 and the globals
\* of the program it names: the runlevel, hostname, network, finit_rcsd,
\* runparts and cfglevel, and cmds, the commands handed to
\* run_interactive() so far.  A line is its keyword and what strip_line()
\* gives for the rest.
BOOTSTRAP_always(st) == TRUE

\* conf.c:51: #define BOOTSTRAP (runlevel == INIT_LEVEL)
BOOTSTRAP(st) == st.runlevel = INIT_LEVEL

\* kmod_load(mod), conf.c:473-493; found is what kmod_exists() reports.
kmod_load(mod, st, found) ==
    IF st.runlevel # INIT_LEVEL \/ mod = "" \/ found THEN st
    ELSE [st EXCEPT !.cmds = Append(@, <<"modprobe", mod>>)]

\* conf.c:826-830: the configured runlevel a token gives; RUNLEVEL is the
\* default level of the build.
runlevel_token(token, RUNLEVEL) ==
    LET n == strtonum(token, 1, 9)
        lvl == IF n.err THEN RUNLEVEL ELSE n.num
    IN  IF lvl < 1 \/ lvl > 9 \/ lvl = 6 THEN 2 ELSE lvl

\* The characters of a line of a keyword and an argument; a line of no
\* keyword is its argument.
RawChars(line) ==
    IF line.cmd = "" THEN Chars(line.arg)
    ELSE Chars(line.cmd) \o <<" ">> \o Chars(line.arg)

\* parse_static(line, is_rcsd), conf.c:728-860: what it returns and the
\* settings after.  found is what kmod_exists() reports; inc is what an
\* include target gives: "missing" when fexist() fails, else whether
\* parse_conf() opens it, and the lines of a target that opens are the nested
\* parse_conf's.  The sizes a "log" line sets are not among the settings.
parse_static(line, st, found, inc, RUNLEVEL) ==
    LET cmd == line.cmd
        arg == line.arg
    IN  CASE BOOTSTRAP(st) /\ cmd \in {"host", "hostname"} ->
                [ret |-> 0, st |-> [st EXCEPT !.hostname = arg]]
          [] BOOTSTRAP(st) /\ cmd = "mknod" ->
                [ret |-> 0, st |-> [st EXCEPT !.cmds = Append(@, <<"mknod", arg>>)]]
          [] BOOTSTRAP(st) /\ cmd = "module" ->
                [ret |-> 0, st |-> kmod_load(arg, st, found)]
          [] BOOTSTRAP(st) /\ cmd = "network" ->
                [ret |-> 0, st |-> [st EXCEPT !.network = arg]]
          [] BOOTSTRAP(st) /\ cmd = "rcsd" ->
                [ret |-> 0, st |-> [st EXCEPT !.finit_rcsd = arg]]
          [] BOOTSTRAP(st) /\ cmd = "runparts" ->
                [ret |-> 0, st |-> [st EXCEPT !.runparts = arg]]
          [] BOOTSTRAP(st) /\ cmd = "set" ->
                [ret |-> 0, st |-> [st EXCEPT !.envs = Append(@, Chars(arg))]]
          [] cmd = "include" ->
                [ret |-> IF inc = "ok" THEN 0 ELSE 1, st |-> st]
          [] cmd = "log" ->
                [ret |-> 0, st |-> st]
          [] cmd = "shutdown" ->
                [ret |-> 0, st |-> [st EXCEPT !.sdown = arg]]
          [] BOOTSTRAP(st) /\ cmd = "runlevel" ->
                [ret |-> 0, st |-> [st EXCEPT !.cfglevel = runlevel_token(arg, RUNLEVEL)]]
          [] cmd = "reboot-delay" ->
                [ret |-> 0, st |-> [st EXCEPT !.syncsec = strtonum(arg, 0, 60).num]]
          [] cmd = "service-interval" ->
                LET n == strtonum(arg, 0, 1440)
                IN  [ret |-> 0,
                     st |-> IF n.err THEN st
                            ELSE [st EXCEPT
                                    !.service_interval = n.num * 1000,
                                    !.cmds = IF st.service_interval = 0
                                             THEN Append(@, <<"service_init", "">>)
                                             ELSE @]]
          [] OTHER -> [ret |-> 1, st |-> st]

\* parse_dynamic(line, rlimit, file), conf.c:862-912: what it returns; what
\* its handlers register and set is the passes' matter.
DynamicCmds == {"service", "task", "run", "sysv", "rlimit", "cgroup", "cgroup.", "tty"}
parse_dynamic(line) == IF line.cmd \in DynamicCmds THEN 0 ELSE 1

\* conf.c:1013-1018: one line goes to parse_static, to parse_dynamic when
\* that returned non-zero, and to parse_env when that did too; envs takes
\* every text parse_env is given.
parse_line(line, st, found, inc, RUNLEVEL) ==
    LET s == parse_static(line, st, found, inc, RUNLEVEL)
    IN  IF s.ret = 0 THEN [by |-> "parse_static", st |-> s.st]
        ELSE IF parse_dynamic(line) = 0 THEN [by |-> "parse_dynamic", st |-> s.st]
        ELSE [by |-> "parse_env",
              st |-> [s.st EXCEPT !.envs = Append(@, RawChars(line))]]

\* parse_env(line), conf.c:388-450: the name it sets and tracks, NULL for a
\* text with no '=' in it.
parse_env_key(text) ==
    LET p == strchr(text, 1, "=")
    IN  IF p = 0 THEN NULL ELSE SubSeq(text, 1, p - 1)

\* -------------------------------------------------------- external modules
\* The service registry and the cgroup manager live outside conf.c; what
\* they keep is modelled from their interface.
SvcNames == AllUnits \cup {RescueTty}
NoReg == [type |-> "none", name |-> "none", rlimit |-> ZeroTable,
          file |-> NullFile, cg |-> "", scoped |-> FALSE,
          exp |-> ZeroTable, ctx |-> "-", raw |-> "", mem |-> "ok"]
NoFrame == [file |-> NullFile, is_rcsd |-> FALSE, rlimit |-> ZeroTable,
            exp |-> ZeroTable, ctx |-> "-", name |-> << >>]
\* A line as read and what realloc() gave instantiate() for it.
Raw(line, mem) == [line |-> line, mem |-> mem]

\* service_register(type, line, rlimit, file), called while f is the running
\* parse_conf activation (NoFrame when conf_reload calls it itself) and raw
\* the line before instantiate().
service_register(type, name, rlimit, file, f, raw) ==
    /\ svcs' = [svcs EXCEPT ![name] = "live"]
    /\ lastReg' = [type |-> type, name |-> name, rlimit |-> rlimit,
                   file |-> file, cg |-> cgroup_current,
                   scoped |-> f.is_rcsd, exp |-> f.exp, ctx |-> f.ctx,
                   raw |-> raw.line, mem |-> raw.mem]
    /\ pass' = [pass EXCEPT !.regd = @ \cup {name}]

\* svc_mark_dynamic(): every unit that came from a .conf file is marked.
svc_mark_dynamic(t) ==
    [n \in SvcNames |-> IF n \in AllUnits /\ t[n] = "live" THEN "stale" ELSE t[n]]

\* cgroup_mark_all(), cgroup_add(name, cfg, 0), cgroup_cleanup()
cgroup_mark_all(t) == [g \in CgroupNames |-> IF t[g] = "live" THEN "stale" ELSE t[g]]
cgroup_add(t, name) == [t EXCEPT ![name] = "live"]
cgroup_cleanup(t) == [g \in CgroupNames |-> IF t[g] = "stale" THEN "absent" ELSE t[g]]

\* ------------------------------------------------------------------- Init
NewPass == [regd |-> {}, calls |-> {}, topOpened |-> FALSE, globEmpty |-> FALSE,
            primGlobal |-> ZeroTable, expGlobal |-> ZeroTable,
            declared |-> {}, swept |-> {}, drained |-> 0, parsed |-> << >>]

NoCall == [fn |-> "none"]
NoRv == [done |-> FALSE]

\* The state conf.c's file-scope objects have when the program starts.
ConfInit ==
    /\ pc = "boot"
    /\ phase = "none"
    /\ rcv = 0
    /\ stack = << >>
    /\ rescue \in BOOLEAN
    /\ initial_rlimit = ZeroTable
    /\ global_rlimit = ZeroTable
    /\ cgroup_current = ""
    /\ env_list = << >>
    /\ environ = [k \in EnvNames |-> "unset"]
    /\ cgroups = [g \in CgroupNames |-> "absent"]
    /\ svcs = [n \in SvcNames |-> "absent"]
    /\ gl = << >>
    /\ gi = 0
    /\ conf_change_list = << >>
    /\ ret = "none"
    /\ nread = 0
    /\ pass = NewPass
    /\ lastReg = NoReg
    /\ trail = << >>

Init ==
    /\ ConfInit
    /\ call = NoCall
    /\ rv = NoRv

\* ------------------------------------------------------------- parse_conf
Top == stack[Len(stack)]
SetTop(f) == [stack EXCEPT ![Len(stack)] = f]

\* fopen() was called on the file and gave a stream.
Opens(file, outcome) == ~Skipped(file) /\ outcome # "fail"

\* What opening a file gives: fopen() fails; it succeeds; or it succeeds on
\* something that cannot be read (a directory), so that every read fails.
OpenOutcomes == {"fail", "ok", "unreadable"}

\* conf.c:1001-1006: fparseln() gives NULL on a read error as on end of
\* file, but feof() stays false: the loop does not leave.
LineLoop(outcome) == IF outcome = "unreadable" THEN "hung" ELSE "parse"

\* parse_conf(file, is_rcsd), conf.c:976-1000, entered with `stk` as the
\* activations below it.  It returns 1 at once when fopen() fails, else the
\* directory-scoped file takes its copy of the global limits, the current
\* cgroup is cleared, and the line loop starts.
parse_conf(file, is_rcsd, outcome, stk) ==
    IF Skipped(file)
    THEN /\ stack' = stk
         /\ cgroup_current' = cgroup_current
         /\ IF stk = << >> THEN pc' = "ret" /\ rcv' = 0
                           ELSE pc' = pc /\ rcv' = rcv
    ELSE IF outcome = "fail"
    THEN /\ stack' = stk
         /\ cgroup_current' = cgroup_current
         /\ IF stk = << >> THEN pc' = "ret" /\ rcv' = 1
                           ELSE pc' = pc /\ rcv' = rcv
    ELSE /\ stack' = Append(stk,
                [file |-> file, is_rcsd |-> is_rcsd,
                 rlimit |-> IF is_rcsd THEN global_rlimit ELSE ZeroTable,
                 exp |-> IF is_rcsd THEN pass.primGlobal ELSE ZeroTable,
                 ctx |-> "-",
                 name |-> is_template(PathChars(file), NAME_SIZE).name])
         /\ cgroup_current' = IF is_rcsd THEN "" ELSE cgroup_current
         /\ pc' = LineLoop(outcome)
         /\ rcv' = rcv

\* -------------------------------------------------------------- conf_init
\* conf.c:1388-1426: read the process limits, register the built-in kernel
\* event daemon when it is installed, parse finit.conf once.
conf_init ==
    /\ pc = "boot"
    /\ \E t \in InitTables, keventd \in BOOLEAN, outcome \in OpenOutcomes :
         /\ initial_rlimit' = t
         /\ global_rlimit' = t
         /\ lastReg' = IF keventd
                        THEN [NoReg EXCEPT !.type = "service", !.name = "keventd",
                                           !.rlimit = t, !.cg = cgroup_current]
                        ELSE NoReg
         /\ pass' = [NewPass EXCEPT !.topOpened = Opens(finit_conf, outcome),
                                    !.primGlobal = t, !.expGlobal = t]
         /\ parse_conf(finit_conf, FALSE, outcome, << >>)
    /\ phase' = "init"
    /\ UNCHANGED <<rescue, env_list, environ, cgroups, svcs, gl, gi,
                   conf_change_list, ret, nread, trail, call, rv>>

\* conf.c:1428-1439: the watcher is set up and conf_init returns.
conf_init_ret ==
    /\ pc = "ret" /\ phase = "init"
    /\ pc' = "idle"
    /\ phase' = "none"
    /\ rcv' = 0
    /\ nread' = 0
    /\ pass' = NewPass
    /\ lastReg' = NoReg
    /\ UNCHANGED <<stack, rescue, initial_rlimit, global_rlimit,
                   cgroup_current, env_list, environ, cgroups, svcs, gl, gi,
                   conf_change_list, ret, trail, call, rv>>

\* ------------------------------------------------------------ conf_reload
\* setenv(name, value, 1) on the environment env; it fails, and changes
\* nothing, on an empty name.
setenv(env, name, value) ==
    IF name \in DOMAIN env THEN [env EXCEPT ![name] = value] ELSE env

\* The names recorded by the nodes of a list; a node whose strdup() failed
\* records none.
Tracked(list) == {list[i].name : i \in {j \in 1..Len(list) : list[j].named}}

\* Only the four defaults are exported; no tracked key is removed.
conf_reset_env_keep(env) ==
    setenv(setenv(setenv(setenv(env,
        "PATH", PATH_STDPATH), "SHELL", PATH_BSHELL), "LOGNAME", "root"), "USER", "root")

\* conf_reset_env(), conf.c:341-358: every node is taken off env_list and
\* its name, when it has one, unset; then the four defaults are exported.
conf_reset_env(env) ==
    LET cleared == [k \in DOMAIN env |->
                       IF k \in Tracked(env_list) THEN "unset" ELSE env[k]]
    IN  setenv(setenv(setenv(setenv(cleared,
            "PATH", PATH_STDPATH), "SHELL", PATH_BSHELL), "LOGNAME", "root"), "USER", "root")

\* What malloc() and strdup() give parse_env.
MemOutcomes == {"ok", "nomalloc", "nostrdup"}

\* conf.c:443-449: the node put at the head of env_list for key.
env_track(list, key, mem) ==
    CASE mem = "nomalloc" -> list
      [] mem = "nostrdup" -> <<[named |-> FALSE, name |-> ""]>> \o list
      [] OTHER            -> <<[named |-> TRUE, name |-> key]>> \o list

\* A pass that keeps the limits the previous pass left.
reset_global_rlimit_keep == global_rlimit

\* conf.c:1073: memcpy(global_rlimit, initial_rlimit, ...)
reset_global_rlimit == initial_rlimit

\* conf.c:1060-1073: mark and sweep, environment and global limits reset.
conf_reload_reset ==
    /\ pc = "idle"
    /\ cgroups' = cgroup_mark_all(cgroups)
    /\ svcs' = svc_mark_dynamic(svcs)
    /\ environ' = conf_reset_env(environ)
    /\ env_list' = << >>
    /\ global_rlimit' = reset_global_rlimit
    /\ pass' = [NewPass EXCEPT !.expGlobal = initial_rlimit,
                               !.calls = {"cgroup_mark_all", "svc_mark_dynamic"}]
    /\ nread' = 0
    /\ ret' = "none"
    /\ lastReg' = NoReg
    /\ trail' = << >>
    /\ pc' = "reset"
    /\ UNCHANGED <<phase, rcv, stack, rescue, initial_rlimit, cgroup_current,
                   gl, gi, conf_change_list, call, rv>>

\* conf.c:1075-1080: rescue mode parses only the rescue file.
conf_reload_rescue ==
    /\ pc = "reset" /\ rescue
    /\ \E outcome \in OpenOutcomes :
         /\ parse_conf(RESCUE_CONF, FALSE, outcome, << >>)
         /\ pass' = [pass EXCEPT !.topOpened = Opens(RESCUE_CONF, outcome),
                                 !.parsed = IF Opens(RESCUE_CONF, outcome)
                                            THEN Append(@, RESCUE_CONF) ELSE @]
    /\ phase' = "rescue"
    /\ UNCHANGED <<rescue, initial_rlimit, global_rlimit, env_list, environ,
                   cgroups, svcs, gl, gi, conf_change_list, ret, nread,
                   lastReg, trail, call, rv>>

\* A fallback registered whatever parse_conf returned.
rescue_fallback_always(rc) == TRUE

\* conf.c:1081-1085: the root-shell fallback when rescue.conf did not open.
rescue_fallback(rc) == rc # 0

conf_reload_rescue_ret ==
    /\ pc = "ret" /\ phase = "rescue"
    /\ IF rescue_fallback(rcv)
       THEN service_register("tty", RescueTty, global_rlimit, NullFile, NoFrame,
                               Raw("", "ok"))
       ELSE /\ lastReg' = NoReg
            /\ UNCHANGED <<svcs, pass>>
    /\ pc' = "done"
    /\ UNCHANGED <<phase, rcv, stack, rescue, initial_rlimit, global_rlimit,
                   cgroup_current, env_list, environ, cgroups, gl, gi,
                   conf_change_list, ret, nread, trail, call, rv>>

\* The primary file parsed in rescue mode too.
conf_reload_primary_any ==
    /\ pc = "reset"
    /\ \E outcome \in OpenOutcomes :
         /\ parse_conf(finit_conf, FALSE, outcome, << >>)
         /\ pass' = [pass EXCEPT !.topOpened = Opens(finit_conf, outcome),
                                 !.parsed = IF Opens(finit_conf, outcome)
                                            THEN Append(@, finit_conf) ELSE @]
    /\ phase' = "primary"
    /\ UNCHANGED <<rescue, initial_rlimit, global_rlimit, env_list, environ,
                   cgroups, svcs, gl, gi, conf_change_list, ret, nread,
                   lastReg, trail, call, rv>>

\* conf.c:1088-1089
conf_reload_primary ==
    /\ pc = "reset" /\ ~rescue
    /\ \E outcome \in OpenOutcomes :
         /\ parse_conf(finit_conf, FALSE, outcome, << >>)
         /\ pass' = [pass EXCEPT !.topOpened = Opens(finit_conf, outcome),
                                 !.parsed = IF Opens(finit_conf, outcome)
                                            THEN Append(@, finit_conf) ELSE @]
    /\ phase' = "primary"
    /\ UNCHANGED <<rescue, initial_rlimit, global_rlimit, env_list, environ,
                   cgroups, svcs, gl, gi, conf_change_list, ret, nread,
                   lastReg, trail, call, rv>>

\* What one glob() call gives for a directory holding `names`, of the
\* basenames `sorted`: its matches, in sorted order.
glob_sorted(sorted, d, names) ==
    LET s == SelectSeq(sorted, LAMBDA b : b \in names)
    IN  [i \in 1..Len(s) |-> File(d, s[i])]

\* glob_append(), conf.c:1028-1050: what one glob() call appends for a
\* directory holding `names`: its matches, sorted.
glob_append(d, names) == glob_sorted(BasenameSeq, d, names)

\* The enabled directory globbed first.
GlobOrder_enabled_first(r, s, e) ==
    glob_append("enabled", e) \o glob_append("rcsd", r) \o glob_append("sys", s)

\* conf.c:1105-1107: rcsd/*.conf, then the system directory, then enabled/.
GlobOrder(r, s, e) ==
    glob_append("rcsd", r) \o glob_append("sys", s) \o glob_append("enabled", e)

\* conf.c:1091-1107: the limits are applied to the process and the three
\* directories are globbed.
conf_reload_glob ==
    /\ pc = "ret" /\ phase = "primary"
    /\ \E r \in SUBSET Basenames, s \in SUBSET Basenames, e \in SUBSET Basenames :
         /\ gl' = GlobOrder(r, s, e)
         /\ pass' = [pass EXCEPT !.calls = @ \cup {"setrlimit"},
                                 !.primGlobal = global_rlimit,
                                 !.globEmpty = (GlobOrder(r, s, e) = << >>)]
    /\ gi' = 1
    /\ pc' = "layered"
    /\ phase' = "layered"
    /\ lastReg' = NoReg
    /\ UNCHANGED <<rcv, stack, rescue, initial_rlimit, global_rlimit,
                   cgroup_current, env_list, environ, cgroups, svcs,
                   conf_change_list, ret, nread, trail, call, rv>>

\* The directories of the layered files.  FINIT_SYSPATH and FINIT_RCSD are
\* set by the build; what matters of their spelling is that neither begins
\* as the other does.
FINIT_SYSPATH == <<"/", "s">>
FINIT_RCSD == <<"/", "r">>
\* The path of a layered directory when finit_rcsd is `rcsd`,
\* conf.c:1105-1107.
DirChars(d, rcsd) ==
    CASE d = "sys"     -> FINIT_SYSPATH
      [] d = "rcsd"    -> rcsd
      [] d = "enabled" -> rcsd \o <<"/", "e">>
      [] OTHER         -> <<"/", d>>
\* strncmp(s1, s2, n): 0 when the first n characters agree.
strncmp(s1, s2, n) ==
    IF SubSeq(s1, 1, Min(n, Len(s1))) = SubSeq(s2, 1, Min(n, Len(s2))) THEN 0 ELSE 1

\* conf.c:1115-1123: the path of entry i begins as FINIT_SYSPATH does and a
\* later entry has its basename.
Overridden(list, i, rcsd) ==
    /\ strncmp(DirChars(list[i].dir, rcsd) \o <<"/">> \o Chars(list[i].base),
               FINIT_SYSPATH, Len(FINIT_SYSPATH)) = 0
    /\ \E j \in (i + 1)..Len(list) : list[j].base = list[i].base

\* conf.c:1109-1126: the entries of the list the loop leaves out.
conf_reload_overrides(list, rcsd) ==
    {i \in 1..Len(list) : Overridden(list, i, rcsd)}

\* conf.c:1125-1126
conf_reload_skip_override ==
    /\ pc = "layered" /\ gi <= Len(gl)
    /\ Overridden(gl, gi, FINIT_RCSD)
    /\ gi' = gi + 1
    /\ UNCHANGED <<pc, phase, rcv, stack, rescue, initial_rlimit,
                   global_rlimit, cgroup_current, env_list, environ, cgroups,
                   svcs, gl, conf_change_list, ret, nread, pass, lastReg,
                   trail, call, rv>>

\* What lstat()/realpath() can report for a globbed entry.
EntryKinds == {"file", "dir", "noaccess", "link_file", "link_dir", "dangling"}
\* conf.c:1128-1147: the entries that get past the checks.
PassesChecks(kind) == kind \notin {"noaccess", "dir", "dangling"}
\* What fopen() and the reads can give for an entry of that kind.
EntryOutcomes(kind) ==
    IF kind = "link_dir" THEN {"fail", "unreadable"} ELSE {"fail", "ok"}

\* conf.c:1128-1154: whether the loop calls parse_conf() for an entry of that
\* kind and path.
conf_reload_entry(kind, path) ==
    /\ PassesChecks(kind)
    /\ ~(Len(path) < 6 \/ SubSeq(path, Len(path) - 4, Len(path)) # DotConf)

\* conf.c:1128-1147: inaccessible entries, directories, dangling symlinks.
conf_reload_skip_entry ==
    /\ pc = "layered" /\ gi <= Len(gl)
    /\ ~Overridden(gl, gi, FINIT_RCSD)
    /\ \E kind \in EntryKinds : ~PassesChecks(kind)
    /\ gi' = gi + 1
    /\ UNCHANGED <<pc, phase, rcv, stack, rescue, initial_rlimit,
                   global_rlimit, cgroup_current, env_list, environ, cgroups,
                   svcs, gl, conf_change_list, ret, nread, pass, lastReg,
                   trail, call, rv>>

\* conf.c:1149-1154: every globbed name ends in .conf and is parsed as a
\* directory-scoped file.
conf_reload_parse_entry ==
    /\ pc = "layered" /\ gi <= Len(gl)
    /\ ~Overridden(gl, gi, FINIT_RCSD)
    /\ \E kind \in EntryKinds :
         /\ PassesChecks(kind)
         /\ \E outcome \in EntryOutcomes(kind) :
              /\ parse_conf(gl[gi], TRUE, outcome, << >>)
              /\ pass' = [pass EXCEPT !.parsed =
                             IF Opens(gl[gi], outcome) THEN Append(@, gl[gi]) ELSE @]
    /\ UNCHANGED <<phase, rescue, initial_rlimit, global_rlimit, env_list,
                   environ, cgroups, svcs, gl, gi, conf_change_list, ret,
                   nread, lastReg, trail, call, rv>>

\* conf.c:1156-1158: next entry.
conf_reload_entry_ret ==
    /\ pc = "ret" /\ phase = "layered"
    /\ gi' = gi + 1
    /\ pc' = "layered"
    /\ lastReg' = NoReg
    /\ UNCHANGED <<phase, rcv, stack, rescue, initial_rlimit, global_rlimit,
                   cgroup_current, env_list, environ, cgroups, svcs, gl,
                   conf_change_list, ret, nread, pass, trail, call, rv>>

\* Reconciliation that leaves out the pruning of unavailable units.
reconcile_calls_no_prune == {"service_update_rdeps", "cgroup_config"}

\* conf.c:1162-1169: the calls made once every layered file is parsed.
reconcile_calls == {"service_update_rdeps", "service_mark_unavail", "cgroup_config"}

\* conf.c:1160-1169: globfree, reverse dependencies, pruning, cgroup_config.
conf_reload_reconcile ==
    /\ pc = "layered" /\ gi > Len(gl)
    /\ gl' = << >>
    /\ gi' = 0
    /\ pass' = [pass EXCEPT !.calls = @ \cup reconcile_calls]
    /\ pc' = "done"
    /\ UNCHANGED <<phase, rcv, stack, rescue, initial_rlimit, global_rlimit,
                   cgroup_current, env_list, environ, cgroups, svcs,
                   conf_change_list, ret, nread, lastReg, trail, call, rv>>

\* A drain that walks the list and frees nothing.
drop_changes_none(list) == list

\* drop_changes(), conf.c:1213-1219
drop_changes(list) == << >>

\* A pass that returns without the sweep of stale cgroups.
conf_reload_done_no_sweep ==
    /\ pc = "done"
    /\ conf_change_list' = drop_changes(conf_change_list)
    /\ pass' = [pass EXCEPT !.calls = @ \cup {"drop_changes"},
                             !.drained = Len(conf_change_list)]
    /\ ret' = "0"
    /\ pc' = "returned"
    /\ phase' = "none"
    /\ UNCHANGED <<rcv, stack, rescue, initial_rlimit, global_rlimit,
                   cgroup_current, env_list, environ, cgroups, svcs, gl, gi,
                   nread, lastReg, trail, call, rv>>

\* conf.c:1170-1187: the label done, and the return.
conf_reload_done ==
    /\ pc = "done"
    /\ cgroups' = cgroup_cleanup(cgroups)
    /\ conf_change_list' = drop_changes(conf_change_list)
    /\ pass' = [pass EXCEPT !.calls = @ \cup {"cgroup_cleanup", "drop_changes"},
                             !.swept = {g \in CgroupNames : cgroups[g] = "stale"},
                             !.drained = Len(conf_change_list)]
    /\ ret' = "0"
    /\ pc' = "returned"
    /\ phase' = "none"
    /\ UNCHANGED <<rcv, stack, rescue, initial_rlimit, global_rlimit,
                   cgroup_current, env_list, environ, svcs, gl, gi, nread,
                   lastReg, trail, call, rv>>

\* conf.c:1382: conf_reload has returned to its caller; the event loop goes on.
conf_reload_return ==
    /\ pc = "returned"
    /\ pc' = "idle"
    /\ rcv' = 0
    /\ pass' = NewPass
    /\ nread' = 0
    /\ ret' = "none"
    /\ lastReg' = NoReg
    /\ UNCHANGED <<phase, stack, rescue, initial_rlimit, global_rlimit,
                   cgroup_current, env_list, environ, cgroups, svcs, gl, gi,
                   conf_change_list, trail, call, rv>>

\* ------------------------------------------- the line loop of parse_conf
\* conf.c:1001-1021.  Each action below is one turn of the loop for one
\* kind of line: parse_static, else parse_dynamic, else parse_env.
Reading == pc = "parse" /\ nread < MaxLines

\* What the include target gives: fexist() fails, or what fopen() gives.
IncludeOutcomes == {"missing"} \cup OpenOutcomes

\* The files an include line of the file read by f names: the file itself,
\* a plain file and, in the instance of a template, the template.
IncludeTargets(f) ==
    {f.file, IncFile} \cup (IF f.name = << >> THEN {} ELSE {File("inc", "t@.conf")})

\* parse_static, conf.c:777-787: "include FILE".  A target that cannot be
\* found or opened makes parse_static return 1; the line then matches
\* nothing in parse_dynamic and parse_env finds no '=' in it.  A target that
\* opens is parsed by a nested parse_conf with the same is_rcsd.
parse_include ==
    /\ Reading
    /\ \E target \in IncludeTargets(Top), outcome \in IncludeOutcomes :
         IF outcome \in {"ok", "unreadable"} /\ ~Skipped(target)
                /\ Len(stack) >= MaxDepth
         THEN /\ pc' = "overflow"
              /\ UNCHANGED <<stack, cgroup_current, rcv>>
         ELSE parse_conf(target, Top.is_rcsd,
                         IF outcome = "missing" THEN "fail" ELSE outcome, stack)
    /\ nread' = nread + 1
    /\ lastReg' = NoReg
    /\ UNCHANGED <<phase, rescue, initial_rlimit, global_rlimit, env_list,
                   environ, cgroups, svcs, gl, gi, conf_change_list, ret,
                   pass, trail, call, rv>>

\* Every unit given the global table.
rlimit_arg_global(f) == global_rlimit

\* conf.c:1015: the table parse_dynamic is given.
rlimit_arg(f) == IF f.is_rcsd THEN f.rlimit ELSE global_rlimit

\* The unit lines drawn in the file read by f, and what realloc() can give
\* instantiate() there: with an empty name it is not called.
UnitLines(f) == IF f.name = << >> THEN UnitNames ELSE UnitNames \cup TemplateUnits
Realloc(f) == IF f.name = << >> THEN {"ok"} ELSE ReallocOutcomes

\* conf.c:1012 and parse_dynamic, 866-888 and 908-912: a service, task, run,
\* sysv or tty line, instantiated and registered.
parse_unit ==
    /\ Reading
    /\ \E type \in UnitTypes, line \in UnitLines(Top), mem \in Realloc(Top) :
         service_register(type, Str(instantiate(Chars(line), Top.name, mem)),
                          rlimit_arg(Top), Top.file, Top, Raw(line, mem))
    /\ nread' = nread + 1
    /\ UNCHANGED <<pc, phase, rcv, stack, rescue, initial_rlimit,
                   global_rlimit, cgroup_current, env_list, environ, cgroups,
                   gl, gi, conf_change_list, ret, trail, call, rv>>

\* parse_dynamic, conf.c:890-894: "rlimit ..." changes the file's own copy
\* when the file is directory-scoped, else the global table.
parse_rlimit ==
    /\ Reading
    /\ \E line \in RlimitLines :
         IF Top.is_rcsd
         THEN /\ stack' = SetTop([Top EXCEPT
                                    !.rlimit = conf_parse_rlimit(line, @),
                                    !.exp = conf_parse_rlimit(line, @)])
              /\ UNCHANGED <<global_rlimit, pass>>
         ELSE /\ global_rlimit' = conf_parse_rlimit(line, global_rlimit)
              /\ pass' = [pass EXCEPT !.expGlobal = conf_parse_rlimit(line, @)]
              /\ stack' = stack
    /\ nread' = nread + 1
    /\ lastReg' = NoReg
    /\ UNCHANGED <<pc, phase, rcv, rescue, initial_rlimit, cgroup_current,
                   env_list, environ, cgroups, svcs, gl, gi,
                   conf_change_list, ret, trail, call, rv>>

\* Only a '/' makes a name illegal.
cgroup_illegal_slash(name) == strchr(Chars(name), 1, "/") # 0

\* conf.c:715: strstr(name, "..") || strchr(name, '/')
cgroup_illegal(name) ==
    strstr(Chars(name), <<".", ".">>) # 0 \/ strchr(Chars(name), 1, "/") # 0

\* conf.c:718-723: the tokens after the name, a "," put before each but the
\* first.  config has room for the whole line, so nothing is cut.
RECURSIVE cgroup_config(_, _)
cgroup_config(config, toks) ==
    IF toks = << >> THEN config
    ELSE cgroup_config((IF config # << >> THEN Append(config, ",") ELSE config)
                           \o <<Head(toks)>>, Tail(toks))

\* conf_parse_cgroup(line), conf.c:706-726, on the tokens strtok() cuts the
\* line into: the calls of cgroup_add(name, config, is_top) it makes.
conf_parse_cgroup(line) ==
    IF line = << >> THEN << >>
    ELSE IF cgroup_illegal(Head(line)) THEN << >>
    ELSE <<[name |-> Head(line), config |-> cgroup_config(<< >>, Tail(line)),
            is_top |-> 0]>>

\* The cgroup table after the calls.
RECURSIVE cgroup_calls(_, _)
cgroup_calls(t, calls) ==
    IF calls = << >> THEN t
    ELSE cgroup_calls(cgroup_add(t, Head(calls).name), Tail(calls))

\* parse_dynamic, conf.c:896-900: "cgroup NAME ctrl.prop:value ..."
parse_cgroup ==
    /\ Reading
    /\ \E name \in CgroupNames \cup IllegalNames :
         /\ cgroups' = cgroup_calls(cgroups, conf_parse_cgroup(<<name>>))
         /\ pass' = [pass EXCEPT !.declared = @ \cup ({name} \cap CgroupNames)]
    /\ nread' = nread + 1
    /\ lastReg' = NoReg
    /\ UNCHANGED <<pc, phase, rcv, stack, rescue, initial_rlimit,
                   global_rlimit, cgroup_current, env_list, environ, svcs,
                   gl, gi, conf_change_list, ret, trail, call, rv>>

\* strlcpy(cgroup_current, x, sizeof(cgroup_current)), conf.c:68 and 904
strlcpy16(name) == IF name = LongName THEN LongName15 ELSE name

\* parse_dynamic, conf.c:902-906: "cgroup.NAME"
parse_cgroup_current ==
    /\ Reading
    /\ \E name \in CtxNames :
         /\ cgroup_current' = strlcpy16(name)
         /\ stack' = SetTop([Top EXCEPT !.ctx = name])
    /\ nread' = nread + 1
    /\ lastReg' = NoReg
    /\ UNCHANGED <<pc, phase, rcv, rescue, initial_rlimit, global_rlimit,
                   env_list, environ, cgroups, svcs, gl, gi,
                   conf_change_list, ret, pass, trail, call, rv>>

\* parse_env, conf.c:388-450, on a line KEY=1 that matched no directive.
parse_env ==
    /\ Reading
    /\ Len(env_list) < MaxEnv
    /\ \E key \in EnvKeys :
         /\ environ' = setenv(environ, key, "1")
         /\ env_list' = env_track(env_list, key, "ok")
    /\ nread' = nread + 1
    /\ lastReg' = NoReg
    /\ UNCHANGED <<pc, phase, rcv, stack, rescue, initial_rlimit,
                   global_rlimit, cgroup_current, cgroups, svcs, gl, gi,
                   conf_change_list, ret, pass, trail, call, rv>>

\* parse_env, conf.c:410-412: a line with no directive and no '=' in it.
parse_malformed ==
    /\ Reading
    /\ nread' = nread + 1
    /\ lastReg' = NoReg
    /\ UNCHANGED <<pc, phase, rcv, stack, rescue, initial_rlimit,
                   global_rlimit, cgroup_current, env_list, environ, cgroups,
                   svcs, gl, gi, conf_change_list, ret, pass, trail, call,
                   rv>>

\* conf.c:1001 and 1023-1025: end of file; fclose, return 0.
parse_eof ==
    /\ pc = "parse"
    /\ stack' = SubSeq(stack, 1, Len(stack) - 1)
    /\ IF Len(stack) = 1 THEN pc' = "ret" /\ rcv' = 0
                         ELSE pc' = pc /\ rcv' = rcv
    /\ lastReg' = NoReg
    /\ UNCHANGED <<phase, rescue, initial_rlimit, global_rlimit,
                   cgroup_current, env_list, environ, cgroups, svcs, gl, gi,
                   conf_change_list, ret, nread, pass, trail, call, rv>>

\* ------------------------------------------------------- change tracking
\* What realpath(fn) gives: fn itself, the target of a symlink, or an errno.
Resolved(fn) == [ok |-> TRUE, path |-> fn, errno |-> "0"]
Failed(fn, e) == [ok |-> FALSE, path |-> fn, errno |-> e]
Target(fn) == "t"
RealpathOutcomes(fn) ==
    {Resolved(fn), Resolved(Target(fn)), Failed(fn, "ENOENT"), Failed(fn, "EACCES")}

\* conf_find, conf.c:1190-1200
conf_find(list, file) == \E i \in 1..Len(list) : list[i] = file

\* conf_any_change, conf.c:1262-1268
conf_any_change == IF conf_change_list = << >> THEN 0 ELSE 1

\* A handler that takes the record away on a deletion event.
conf_change_act_removing(list, fn, mask, r, mem) ==
    LET rp == IF r.ok THEN r.path ELSE fn
    IN  IF ~r.ok /\ (r.errno # "ENOENT" \/ ~mem) THEN [list |-> list, rc |-> 1]
        ELSE IF mask = "IN_DELETE"
             THEN [list |-> SelectSeq(list, LAMBDA x : x # rp), rc |-> 0]
        ELSE IF conf_find(list, rp) THEN [list |-> list, rc |-> 0]
        ELSE IF ~mem THEN [list |-> list, rc |-> 1]
        ELSE [list |-> <<rp>> \o list, rc |-> 0]

\* conf_change_act(dir, name, mask), conf.c:1221-1260: the list it leaves
\* and its return value; r is what realpath() gives for the pasted path fn,
\* mem is whether strdup/malloc succeed.
conf_change_act(list, fn, mask, r, mem) ==
    LET rp == IF r.ok THEN r.path ELSE fn
    IN  IF ~r.ok /\ (r.errno # "ENOENT" \/ ~mem) THEN [list |-> list, rc |-> 1]
        ELSE IF conf_find(list, rp) THEN [list |-> list, rc |-> 0]
        ELSE IF ~mem THEN [list |-> list, rc |-> 1]
        ELSE [list |-> <<rp>> \o list, rc |-> 0]

\* conf_changed(file), conf.c:1270-1287, for a file that is not NULL: r is
\* what realpath() gives for it.
conf_changed(list, file, r) ==
    IF ~r.ok THEN 0
    ELSE IF conf_find(list, r.path) THEN 1
    ELSE 0

\* What the calls since the last pass have been: none, a creation event for
\* one path, that followed by a deletion event for the same path, or
\* anything else.
TrailAfter(fn, mask, rc) ==
    IF rc = 0 /\ trail = << >> /\ mask = "IN_CREATE" THEN <<"created", fn>>
    ELSE IF rc = 0 /\ trail = <<"created", fn>> /\ mask = "IN_DELETE"
         THEN <<"deleted", fn>>
    ELSE <<"other">>

\* conf_iwatch_read handing one inotify event to conf_change_act,
\* conf.c:1301-1325, between two passes.
conf_iwatch_event ==
    /\ pc = "idle"
    /\ \E fn \in Paths, mask \in Masks, mem \in BOOLEAN :
       \E r \in RealpathOutcomes(fn) :
         LET res == conf_change_act(conf_change_list, fn, mask, r, mem)
         IN  /\ conf_change_list' = res.list
             /\ trail' = TrailAfter(fn, mask, res.rc)
    /\ UNCHANGED <<pc, phase, rcv, stack, rescue, initial_rlimit,
                   global_rlimit, cgroup_current, env_list, environ, cgroups,
                   svcs, gl, gi, ret, nread, pass, lastReg, call, rv>>

\* ------------------------------------------------------------------- Spec
Next ==
    \/ conf_init
    \/ conf_init_ret
    \/ conf_reload_reset
    \/ conf_reload_rescue
    \/ conf_reload_rescue_ret
    \/ conf_reload_primary
    \/ conf_reload_glob
    \/ conf_reload_skip_override
    \/ conf_reload_skip_entry
    \/ conf_reload_parse_entry
    \/ conf_reload_entry_ret
    \/ conf_reload_reconcile
    \/ conf_reload_done
    \/ conf_reload_return
    \/ parse_include
    \/ parse_unit
    \/ parse_rlimit
    \/ parse_cgroup
    \/ parse_cgroup_current
    \/ parse_env
    \/ parse_malformed
    \/ parse_eof
    \/ conf_iwatch_event

Spec == Init /\ [][Next]_vars

\* ================================================================ claims

\* C1: a file of the system-default directory is not parsed in a pass in
\* which the override layer (rcsd or rcsd/enabled) holds a file of the same
\* basename.
C1_OverrideWins ==
    \A i, j \in 1..Len(pass.parsed) :
        ~(/\ pass.parsed[i].dir = "sys"
          /\ pass.parsed[j].dir \in {"rcsd", "enabled"}
          /\ pass.parsed[j].base = pass.parsed[i].base)

\* C2: every reload pass terminates, whatever the files hold: a pass is
\* never in a state it cannot leave (a line loop that does not end, a
\* recursion that does not return).
C2_ReloadTerminates ==
    phase \in {"primary", "rescue", "layered"} => pc \notin {"hung", "overflow"}

\* C3: when conf_reload has returned, on the normal and on the rescue path,
\* the change set is empty and conf_any_change() is 0.
C3_DrainedOnReturn ==
    pc = "returned" => (conf_change_list = << >> /\ conf_any_change = 0)

C3_Witness ==
    /\ pc = "returned"
    /\ pass.drained > 0
    /\ "drop_changes" \in pass.calls

\* C4 as stated: after a creation event and then a deletion event for one
\* path between two passes the change set is empty.
C4_CreateDeleteEmpties ==
    (Len(trail) = 2 /\ trail[1] = "deleted")
        => (conf_change_list = << >> /\ conf_any_change = 0)

\* C4 as amended: after a creation event and then a deletion event for one
\* path the change set is not empty and conf_any_change() is 1, and no
\* event, whatever its mask, takes a record out of the set.
C4_CreateDeleteKeepsRecord ==
    /\ []((Len(trail) = 2 /\ trail[1] = "deleted")
            => (conf_change_list # << >> /\ conf_any_change = 1))
    /\ [][(pc = "idle" /\ pc' = "idle")
            => \A i \in 1..Len(conf_change_list) :
                   conf_find(conf_change_list', conf_change_list[i])]_vars

C4_Witness ==
    /\ Len(trail) = 2 /\ trail[1] = "deleted"
    /\ conf_find(conf_change_list, trail[2])

\* C5: a non-rescue pass whose primary file cannot be opened and whose
\* layered list is empty registers no unit, still runs the reverse
\* dependency update, the pruning, the cgroup finalisation and the removal
\* of stale cgroups, clears the change set and returns 0.
C5_EmptyPass ==
    (pc = "returned" /\ ~rescue /\ ~pass.topOpened /\ pass.globEmpty)
        => /\ pass.regd = {}
           /\ {"service_update_rdeps", "service_mark_unavail",
               "cgroup_config", "cgroup_cleanup"} \subseteq pass.calls
           /\ \A g \in CgroupNames : cgroups[g] # "stale"
           /\ conf_change_list = << >>
           /\ ret = "0"

C5_Witness ==
    /\ pc = "returned" /\ ~rescue /\ ~pass.topOpened /\ pass.globEmpty
    /\ pass.drained > 0

\* C6 as stated: a pass that ends with no unit registered from the files
\* has registered the fallback console unit.
C6_FallbackWhenNoUnits ==
    (pc = "returned" /\ pass.regd \ {RescueTty} = {}) => RescueTty \in pass.regd

\* C6 as amended: the fallback console unit is registered in a pass exactly
\* when the pass runs in rescue mode and the rescue file cannot be opened.
C6_FallbackOnlyInRescue ==
    pc = "returned" => (RescueTty \in pass.regd <=> (rescue /\ ~pass.topOpened))

C6_Witness ==
    pc = "returned" /\ rescue /\ ~pass.topOpened /\ pass.regd = {RescueTty}

\* C7: the initial table does not change after conf_init, and at the end of
\* a non-rescue pass the global table is the initial table overridden by
\* the rlimit directives the primary file and its includes held in that
\* pass, and by nothing else.
C7_GlobalFromInitial ==
    /\ [][pc # "boot" => initial_rlimit' = initial_rlimit]_vars
    /\ []((pc = "returned" /\ ~rescue) => global_rlimit = pass.expGlobal)

C7_Witness ==
    /\ pc = "returned" /\ ~rescue
    /\ global_rlimit # initial_rlimit
    /\ global_rlimit = pass.expGlobal

\* C8: an rlimit directive of a directory-scoped file leaves the global
\* table as the primary file left it, and a unit of a directory-scoped file
\* F is registered with that table overridden by the rlimit directives of F
\* that precede the unit's line, and by nothing else.
C8_ScopedLimits ==
    /\ phase = "layered" => global_rlimit = pass.primGlobal
    /\ lastReg.scoped => lastReg.rlimit = lastReg.exp

C8_Witness ==
    /\ lastReg.scoped
    /\ lastReg.rlimit # pass.primGlobal
    /\ global_rlimit = pass.primGlobal

\* C9: in every pass, rescue included, cgroups and dynamic units are marked
\* stale before a line is parsed, stale cgroups are removed after the last
\* line, a cgroup not declared again in the pass is gone when the pass
\* returns, and no cgroup is stale at Idle.
C9_MarkAndSweep ==
    /\ pc = "reset" => /\ nread = 0
                       /\ \A g \in CgroupNames : cgroups[g] # "live"
                       /\ \A n \in UnitNames : svcs[n] # "live"
    /\ (phase \in {"primary", "rescue", "layered"} /\ nread > 0)
          => {"cgroup_mark_all", "svc_mark_dynamic"} \subseteq pass.calls
    /\ pc = "returned" => /\ "cgroup_cleanup" \in pass.calls
                          /\ \A g \in CgroupNames \ pass.declared :
                                 cgroups[g] = "absent"
    /\ pc \in {"returned", "idle"} => \A g \in CgroupNames : cgroups[g] # "stale"

C9_Witness ==
    /\ pc = "returned"
    /\ nread > 0
    /\ pass.swept # {}
    /\ \A g \in pass.swept : cgroups[g] = "absent"

\* C10: after a line "cgroup.NAME" (NAME short enough for the buffer) in a
\* directory-scoped file, a unit declared later in the same file is
\* registered while the current cgroup context is NAME, whatever lines lie
\* between.
C10_ContextHolds ==
    (lastReg.scoped /\ lastReg.ctx \in CtxNames /\ strlcpy16(lastReg.ctx) = lastReg.ctx)
        => lastReg.cg = lastReg.ctx

\* C11: in a non-rescue pass the primary file is parsed first, then entries
\* of rcsd, then of the system directory, then of rcsd/enabled: no file of
\* a later group is parsed before one of an earlier group; the file being
\* read is the entry the loop stands at, and a file entered by an include
\* line is read to its end before its includer goes on.
GroupRank(f) ==
    CASE f = finit_conf    -> 0
      [] f.dir = "rcsd"    -> 1
      [] f.dir = "sys"     -> 2
      [] f.dir = "enabled" -> 3
      [] OTHER             -> 4

C11_ParseOrder ==
    ~rescue =>
        /\ \A i, j \in 1..Len(pass.parsed) :
               i < j => /\ GroupRank(pass.parsed[i]) <= GroupRank(pass.parsed[j])
                        /\ GroupRank(pass.parsed[j]) \in 1..3
        /\ (phase = "layered" /\ stack # << >>)
               => /\ stack[1].file = gl[gi]
                  /\ pass.parsed[Len(pass.parsed)] = gl[gi]
                  /\ "setrlimit" \in pass.calls
        /\ (phase = "primary" /\ stack # << >>)
               => (stack[1].file = finit_conf /\ pass.parsed = <<finit_conf>>)
        /\ pc = "ret" => stack = << >>

C11_Witness ==
    /\ pc = "returned" /\ ~rescue
    /\ Len(pass.parsed) = 3
    /\ pass.parsed[1] = finit_conf
    /\ pass.parsed[2].dir = "rcsd"
    /\ pass.parsed[3].dir = "sys"

\* ------------------------------------------------ functions on their own
\* The parsing functions of conf.c, each called once on arguments drawn
\* from the sets below.

\* Tokens of "rlimit [LEVEL] RESOURCE VALUE" lines.
RlimitLevels == {"soft", "hard", "both", "bogus"}
RlimitLimits == {"nofile", "core", "bogus"}
RlimitVals == {"0", "1024", "unlimited", "infinity", "-1", "x", "4294967297"}
RlimitArgs ==
    {<<l, r, v>> : l \in RlimitLevels, r \in RlimitLimits, v \in RlimitVals}
        \cup {<<r, v>> : r \in RlimitLimits \cup {"soft"}, v \in RlimitVals}
        \cup {<<r>> : r \in RlimitLimits} \cup {<< >>}
RlimitArrs == InitTables \cup {ZeroTable}
RlimitCalls ==
    [fn : {"conf_parse_rlimit"}, line : RlimitArgs, arr : RlimitArrs]

call_conf_parse_rlimit ==
    /\ call.fn = "conf_parse_rlimit"
    /\ ~rv.done
    /\ rv' = [done |-> TRUE, arr |-> conf_parse_rlimit(call.line, call.arr)]
    /\ UNCHANGED <<confvars, call>>

\* Runlevel strings: the digits of a set of levels in rising order between
\* brackets, the same after a '!', and every body of up to MaxBody
\* characters of RunlevelChars after the opening bracket.
MaxBody == 3
DigitSeq == <<"0", "1", "2", "3", "4", "5", "6", "7", "8", "9">>
Digits(L) == LET In(d) == (Ord(d) - Ord("0")) \in L IN SelectSeq(DigitSeq, In)
Bracketed(L) == <<"[">> \o Digits(L) \o <<"]">>
NotBracketed(L) == <<"[", "!">> \o Digits(L) \o <<"]">>
RunlevelChars == {"0", "2", "6", "9", "!", "s", "S", ":", "/", "a", "]"}
Bodies == UNION {[1..n -> RunlevelChars] : n \in 0..MaxBody}
RunlevelStrings ==
    {Bracketed(L) : L \in SUBSET (0..9)}
        \cup {NotBracketed(L) : L \in SUBSET (0..9)}
        \cup {<<"[">> \o b : b \in Bodies}
        \cup {NULL}
RunlevelCalls == [fn : {"conf_parse_runlevels"}, runlevels : RunlevelStrings]

call_conf_parse_runlevels ==
    /\ call.fn = "conf_parse_runlevels"
    /\ ~rv.done
    /\ rv' = [done |-> TRUE, bitmask |-> conf_parse_runlevels(call.runlevels)]
    /\ UNCHANGED <<confvars, call>>

\* Lines and names of up to MaxInstLine and MaxInstName characters.
MaxInstLine == 4
MaxInstName == 2
InstLines == UNION {[1..n -> {"%", "i", "a"}] : n \in 0..MaxInstLine}
InstNames == UNION {[1..n -> {"%", "i", "x"}] : n \in 0..MaxInstName}
InstantiateCalls ==
    [fn : {"instantiate"}, line : InstLines, name : InstNames, mem : ReallocOutcomes]

call_instantiate ==
    /\ call.fn = "instantiate"
    /\ ~rv.done
    /\ rv' = [done |-> TRUE, line |-> instantiate(call.line, call.name, call.mem)]
    /\ UNCHANGED <<confvars, call>>

\* Lines of the bootstrap-only directives and a line of no directive, in
\* every runlevel, on settings that differ from every argument drawn.
StaticCmds ==
    {"host", "hostname", "mknod", "module", "network", "rcsd", "runparts",
     "runlevel", "other"}
StaticArgs == {"", "x1", "x2", "1", "3", "6", "9", "10"}
StaticLines == [cmd : StaticCmds, arg : StaticArgs]
Runlevels == 0..INIT_LEVEL
BuildRunlevels == {2, 3}
StaticSettings ==
    [runlevel : Runlevels, hostname : {"h0"}, network : {"n0"},
     finit_rcsd : {"r0"}, runparts : {"p0"}, cfglevel : {2, 5},
     cmds : {<< >>, <<<<"mknod", "x0">>>>}, sdown : {"s0"}, syncsec : {2},
     service_interval : {300000}, envs : {<< >>}]
StaticCalls ==
    [fn : {"parse_static"}, line : StaticLines, st : StaticSettings,
     found : BOOLEAN, inc : {"ok"}, RUNLEVEL : BuildRunlevels]

call_parse_static ==
    /\ call.fn = "parse_static"
    /\ ~rv.done
    /\ LET r == parse_static(call.line, call.st, call.found, call.inc, call.RUNLEVEL)
       IN  rv' = [done |-> TRUE, ret |-> r.ret, st |-> r.st]
    /\ UNCHANGED <<confvars, call>>

\* "cgroup" lines: no token, or a name and up to MaxTail settings.
MaxTail == 2
CgroupArgNames == CgroupNames \cup IllegalNames \cup {"g.1", "a..b", ".."}
CgroupSettings == {"cpu.weight:100", "mem.max:1G"}
CgroupArgs ==
    {<< >>} \cup {<<n>> \o t : n \in CgroupArgNames,
                              t \in UNION {[1..k -> CgroupSettings] : k \in 0..MaxTail}}
CgroupCalls == [fn : {"conf_parse_cgroup"}, line : CgroupArgs]

call_conf_parse_cgroup ==
    /\ call.fn = "conf_parse_cgroup"
    /\ ~rv.done
    /\ rv' = [done |-> TRUE, calls |-> conf_parse_cgroup(call.line)]
    /\ UNCHANGED <<confvars, call>>

\* Override resolution: the three directories hold any of two basenames and
\* finit_rcsd is the build's directory or one set with "rcsd DIR",
\* conf.c:760-763, whose path begins as FINIT_SYSPATH does.
OverrideBases == <<"a.conf", "x.conf">>
OverrideDirs == SUBSET {OverrideBases[i] : i \in 1..Len(OverrideBases)}
RcsdPaths == {FINIT_RCSD, FINIT_SYSPATH \o <<"d">>}
OverrideLists ==
    {glob_sorted(OverrideBases, "rcsd", r) \o glob_sorted(OverrideBases, "sys", s)
        \o glob_sorted(OverrideBases, "enabled", e) :
            r \in OverrideDirs, s \in OverrideDirs, e \in OverrideDirs}
OverrideCalls == [fn : {"conf_reload_overrides"}, list : OverrideLists, rcsd : RcsdPaths]

call_conf_reload_overrides ==
    /\ call.fn = "conf_reload_overrides"
    /\ ~rv.done
    /\ rv' = [done |-> TRUE, dropped |-> conf_reload_overrides(call.list, call.rcsd)]
    /\ UNCHANGED <<confvars, call>>

\* The entry checks: a globbed path of one of the three directories, and
\* what lstat() and realpath() report for it.
EntryPaths ==
    {DirChars(d, FINIT_RCSD) \o <<"/">> \o Chars(OverrideBases[i]) :
        d \in {"rcsd", "sys", "enabled"}, i \in 1..Len(OverrideBases)}
EntryCalls == [fn : {"conf_reload_entry"}, kind : EntryKinds, path : EntryPaths]

call_conf_reload_entry ==
    /\ call.fn = "conf_reload_entry"
    /\ ~rv.done
    /\ rv' = [done |-> TRUE, parsed |-> conf_reload_entry(call.kind, call.path)]
    /\ UNCHANGED <<confvars, call>>

\* conf_change_act for a path and then conf_changed for the same path with
\* nothing on disk changed in between: realpath() gives both the same.  The
\* list before holds nothing, the path or what it links to.
ChangeLists == {<< >>} \cup {<<fn>> : fn \in Paths} \cup {<<Target(fn)>> : fn \in Paths}
ChangedCalls ==
    UNION {[fn : {"conf_changed"}, list : ChangeLists, path : {path}, mask : Masks,
            r : RealpathOutcomes(path), mem : BOOLEAN] : path \in Paths}

call_conf_changed ==
    /\ call.fn = "conf_changed"
    /\ ~rv.done
    /\ LET res == conf_change_act(call.list, call.path, call.mask, call.r, call.mem)
       IN  rv' = [done |-> TRUE, act |-> res.rc, list |-> res.list,
                  before |-> conf_changed(call.list, call.path, call.r),
                  changed |-> conf_changed(res.list, call.path, call.r)]
    /\ UNCHANGED <<confvars, call>>

\* One turn of the line loop: a line of a keyword of parse_static or of
\* parse_dynamic, or of none, with an argument that has a '=' in it, a word
\* or a number, in the bootstrap level and in runlevel 2.
LineCmds ==
    {"set", "hostname", "include", "service", "runlevel", "reboot-delay",
     "service-interval", ""}
LineArgs == {"k=v", "x1", "0", "3", "6", "10", "60", "61", "1440", "1441"}
LineSettings ==
    [runlevel : {2, INIT_LEVEL}, hostname : {"h0"}, network : {"n0"},
     finit_rcsd : {"r0"}, runparts : {"p0"}, cfglevel : {5}, cmds : {<< >>},
     sdown : {"s0"}, syncsec : {2}, service_interval : {0, 300000},
     envs : {<< >>}]
LineCalls ==
    [fn : {"parse_line"}, line : [cmd : LineCmds, arg : LineArgs],
     st : LineSettings, found : {TRUE}, inc : {"missing", "fail", "ok"},
     RUNLEVEL : BuildRunlevels]

call_parse_line ==
    /\ call.fn = "parse_line"
    /\ ~rv.done
    /\ LET r == parse_line(call.line, call.st, call.found, call.inc, call.RUNLEVEL)
       IN  rv' = [done |-> TRUE, by |-> r.by, st |-> r.st]
    /\ UNCHANGED <<confvars, call>>

\* ------------------------------------------------------ the command line
\* isdigit(c)
isdigit(c) == c \in {"0", "1", "2", "3", "4", "5", "6", "7", "8", "9"}

\* parse_runlevel(arg), conf.c:213-232
parse_runlevel(arg) ==
    IF \E k \in 1..Len(Chars(arg)) : ~isdigit(Chars(arg)[k]) THEN 0
    ELSE LET n == strtonum(arg, 1, 9)
         IN  IF n.err \/ n.num = 6 THEN 0 ELSE n.num

\* parse_arg(arg), conf.c:234-259, on the options the command line sets:
\* cmdlevel, rescue and single.  What finit.OPT and fsck.OPT set is none of
\* the three.
parse_arg(arg, opts) ==
    IF strncmp(Chars(arg), <<"f", "i", "n", "i", "t", ".">>, 6) = 0 THEN opts
    ELSE IF strncmp(Chars(arg), <<"f", "s", "c", "k", ".">>, 5) = 0 THEN opts
    ELSE IF arg \in {"rescue", "recover"} THEN [opts EXCEPT !.rescue = 1]
    ELSE IF arg \in {"single", "S"} THEN [opts EXCEPT !.single = 1]
    ELSE [opts EXCEPT !.cmdlevel = parse_runlevel(arg)]

\* conf_parse_cmdline(argc, argv), conf.c:323-335: the loop over argv[1] and
\* the arguments after it.
RECURSIVE conf_parse_cmdline(_, _)
conf_parse_cmdline(argv, opts) ==
    IF argv = << >> THEN opts
    ELSE conf_parse_cmdline(Tail(argv), parse_arg(Head(argv), opts))

\* Command lines of up to MaxArgs arguments; when the program starts none of
\* the options is set.
MaxArgs == 3
CmdArgs == {"3", "5", "6", "10", "x1", "rescue", "single", "finit.3", "fsck.3"}
NoOpts == [cmdlevel |-> 0, rescue |-> 0, single |-> 0]
CmdlineCalls ==
    [fn : {"conf_parse_cmdline"},
     argv : UNION {[1..n -> CmdArgs] : n \in 0..MaxArgs}]

call_conf_parse_cmdline ==
    /\ call.fn = "conf_parse_cmdline"
    /\ ~rv.done
    /\ rv' = [done |-> TRUE, opts |-> conf_parse_cmdline(call.argv, NoOpts)]
    /\ UNCHANGED <<confvars, call>>

InitFn ==
    /\ ConfInit
    /\ \/ call \in RlimitCalls
       \/ call \in RunlevelCalls
       \/ call \in InstantiateCalls
       \/ call \in StaticCalls
       \/ call \in CgroupCalls
       \/ call \in OverrideCalls
       \/ call \in EntryCalls
       \/ call \in ChangedCalls
       \/ call \in LineCalls
       \/ call \in CmdlineCalls
    /\ rv = NoRv

NextFn ==
    \/ call_conf_parse_rlimit
    \/ call_conf_parse_runlevels
    \/ call_instantiate
    \/ call_parse_static
    \/ call_conf_parse_cgroup
    \/ call_conf_reload_overrides
    \/ call_conf_reload_entry
    \/ call_conf_changed
    \/ call_parse_line
    \/ call_conf_parse_cmdline

SpecFn == InitFn /\ [][NextFn]_vars

\* What a VALUE token stands for, when it stands for anything.
RlimitValid(v) == v \in {"unlimited", "infinity"} \/ (v \in Numerals /\ NumeralValue(v) >= 0)
RlimitMeant(v) == IF v \in {"unlimited", "infinity"} THEN RLIM_INFINITY ELSE NumeralValue(v)
\* The level, resource and value of a line of two or three tokens.
LineLevel(line) == IF Len(line) >= 3 THEN line[1] ELSE "both"
LineLimit(line) == IF Len(line) >= 3 THEN line[2] ELSE line[1]
LineVal(line) == IF Len(line) >= 3 THEN line[3] ELSE line[2]
WellFormedRlimit(line) ==
    /\ Len(line) >= 2
    /\ LineLevel(line) \in {"soft", "hard", "both"}
    /\ LineLimit(line) \in RlimitNames
    /\ RlimitValid(LineVal(line))

\* C12: conf_parse_rlimit with level soft changes only the soft bound of the
\* named resource, hard only the hard bound, both or the two-token form
\* both bounds, to the integer given or to RLIM_INFINITY for unlimited and
\* infinity; the entries of every other resource stay as they were.
C12_RlimitFrame ==
    (call.fn = "conf_parse_rlimit" /\ rv.done /\ WellFormedRlimit(call.line)) =>
        LET res == LineLimit(call.line)
            lvl == LineLevel(call.line)
            v   == RlimitMeant(LineVal(call.line))
        IN  /\ \A r \in RlimitNames \ {res} : rv.arr[r] = call.arr[r]
            /\ rv.arr[res].cur = IF lvl = "hard" THEN call.arr[res].cur ELSE v
            /\ rv.arr[res].max = IF lvl = "soft" THEN call.arr[res].max ELSE v

C12_Witness ==
    /\ call.fn = "conf_parse_rlimit" /\ rv.done
    /\ call.line = <<"soft", "nofile", "1024">>
    /\ call.arr \in InitTables
    /\ rv.arr["nofile"] = Limit(1024, 4)

\* C13: conf_parse_rlimit leaves the table as it was when the resource is
\* unknown, when the line has fewer than two tokens, when the level is not
\* soft, hard or both, or when the value is neither unlimited or infinity
\* nor a non-negative integer in range.
C13_RlimitRejects ==
    (call.fn = "conf_parse_rlimit" /\ rv.done /\ ~WellFormedRlimit(call.line))
        => rv.arr = call.arr

C13_Witness ==
    /\ call.fn = "conf_parse_rlimit" /\ rv.done
    /\ call.line = <<"bogus", "nofile", "1024">>
    /\ call.arr \in InitTables
    /\ rv.arr = call.arr

\* ------------------------------------------- the environment on its own
\* KEY=VALUE lines and resets in any order, with every outcome of the
\* allocations in parse_env.
MaxAssign == 3
AssignKeys == EnvKeys \cup {"BAR", "PATH", "USER", ""}
AssignVals == {"1"}

\* parse_env(line), conf.c:388-450, on the line KEY=VALUE.
env_parse_env ==
    /\ call.fn = "env"
    /\ Len(env_list) < MaxAssign
    /\ \E key \in AssignKeys, val \in AssignVals, mem \in MemOutcomes :
         /\ environ' = setenv(environ, key, val)
         /\ env_list' = env_track(env_list, key, mem)
    /\ rv' = [done |-> TRUE, op |-> "parse_env", tracked |-> {}]
    /\ UNCHANGED <<pc, phase, rcv, stack, rescue, initial_rlimit, global_rlimit,
                   cgroup_current, cgroups, svcs, gl, gi, conf_change_list,
                   ret, nread, pass, lastReg, trail, call>>

\* conf_reset_env(), conf.c:341-358; rv keeps the names that were recorded.
env_conf_reset_env ==
    /\ call.fn = "env"
    /\ environ' = conf_reset_env(environ)
    /\ env_list' = << >>
    /\ rv' = [done |-> TRUE, op |-> "conf_reset_env", tracked |-> Tracked(env_list)]
    /\ UNCHANGED <<pc, phase, rcv, stack, rescue, initial_rlimit, global_rlimit,
                   cgroup_current, cgroups, svcs, gl, gi, conf_change_list,
                   ret, nread, pass, lastReg, trail, call>>

InitEnv ==
    /\ ConfInit
    /\ call = [fn |-> "env"]
    /\ rv = NoRv

NextEnv ==
    \/ env_parse_env
    \/ env_conf_reset_env

SpecEnv == InitEnv /\ [][NextEnv]_vars

EnvGet(name) == IF name \in DOMAIN environ THEN environ[name] ELSE "unset"
JustReset == call.fn = "env" /\ rv.done /\ rv.op = "conf_reset_env"
FixedDefaults ==
    /\ environ["PATH"] = PATH_STDPATH
    /\ environ["SHELL"] = PATH_BSHELL
    /\ environ["LOGNAME"] = "root"
    /\ environ["USER"] = "root"

\* C14 as stated: after conf_reset_env every key that was tracked is unset,
\* the tracked set is empty, and PATH, SHELL, LOGNAME and USER have their
\* defaults.
C14_ResetUnsetsTracked ==
    JustReset =>
        /\ \A k \in rv.tracked : EnvGet(k) = "unset"
        /\ env_list = << >>
        /\ FixedDefaults

\* C14, amended: after conf_reset_env every key that was tracked, other than
\* PATH, SHELL, LOGNAME and USER, is unset; the tracked set is empty; and
\* those four have their defaults, tracked or not.
C14_ResetUnsetsOthers ==
    JustReset =>
        /\ \A k \in rv.tracked \ FixedEnvNames : EnvGet(k) = "unset"
        /\ env_list = << >>
        /\ FixedDefaults

C14_Witness ==
    /\ JustReset
    /\ rv.tracked = {"FOO", "PATH"}
    /\ environ["FOO"] = "unset"
    /\ environ["PATH"] = PATH_STDPATH

\* The levels whose bits are set in a mask.
LevelsOf(m) == {n \in 0..INIT_LEVEL : ISSET(m, n)}
RunlevelsDone == call.fn = "conf_parse_runlevels" /\ rv.done
\* The levels 0 to 9 whose digits stand in a string.
Listed(str) == {Ord(str[i]) - Ord("0") : i \in 2..Len(str)} \cap (0..9)

\* C15: for every subset L of the levels 0 to 9, conf_parse_runlevels of the
\* bracketed digits of L returns the mask with exactly the bits of L set; a
\* null argument gives what "[234]" gives, exactly bits 2, 3 and 4.
C15_DigitsDecode ==
    RunlevelsDone =>
        /\ LET L == Listed(call.runlevels)
           IN  call.runlevels = Bracketed(L)
                   => (LevelsOf(rv.bitmask) = L /\ rv.bitmask < 2 ^ (INIT_LEVEL + 1))
        /\ call.runlevels = NULL
               => /\ rv.bitmask = 4 + 8 + 16
                  /\ rv.bitmask = conf_parse_runlevels(Bracketed({2, 3, 4}))

C15_Witness ==
    /\ RunlevelsDone
    /\ call.runlevels = Bracketed({0, 5, 9})
    /\ rv.bitmask = 1 + 32 + 512

\* C16 as stated: "[!6]" gives bit 6 clear and bits 0 to 5 and 7 to 9 set; a
\* leading '!' starts from the levels 0 to 9 without the bootstrap level
\* and each listed level clears its bit.
C16_NotStartsFromTen ==
    RunlevelsDone =>
        LET L == Listed(call.runlevels)
        IN  call.runlevels = NotBracketed(L) => LevelsOf(rv.bitmask) = (0..9) \ L

\* C16, amended: "[!6]" gives bits 0 and 6 clear and bits 1 to 5, 7 to 9 and
\* the bootstrap bit set; a leading '!' starts from the levels 1 to 9 and
\* the bootstrap level, level 0 left out, and each listed level clears
\* its bit.
C16_NotStartsFromOne ==
    RunlevelsDone =>
        LET L == Listed(call.runlevels)
        IN  call.runlevels = NotBracketed(L)
                => LevelsOf(rv.bitmask) = (1..INIT_LEVEL) \ L

C16_Witness ==
    /\ RunlevelsDone
    /\ call.runlevels = <<"[", "!", "6", "]">>
    /\ LevelsOf(rv.bitmask) = {1, 2, 3, 4, 5, 7, 8, 9, 10}

\* The characters the grammar names, and a string without the others that
\* stand before its terminator.
Named == {"0", "1", "2", "3", "4", "5", "6", "7", "8", "9", "s", "S", "!"}
RECURSIVE Purged(_)
Purged(str) ==
    IF str = << >> \/ Head(str) = "]" THEN str
    ELSE IF Head(str) \in Named THEN <<Head(str)>> \o Purged(Tail(str))
    ELSE Purged(Tail(str))

\* C17: a character before the terminator that is not a digit, s, S or '!'
\* neither sets nor clears a bit, so that the mask is the mask of the
\* string without such characters; and no bit is set outside levels 0 to
\* 9 and the bootstrap level.
C17_OthersIgnored ==
    (RunlevelsDone /\ call.runlevels # NULL) =>
        /\ rv.bitmask = conf_parse_runlevels(<<"[">> \o Purged(Tail(call.runlevels)))
        /\ rv.bitmask \in 0..(2 ^ (INIT_LEVEL + 1) - 1)

\* Every "%i" of a line replaced by name, from left to right, the other
\* characters kept.
RECURSIVE Replaced(_, _)
Replaced(line, name) ==
    IF line = << >> THEN << >>
    ELSE IF Len(line) >= 2 /\ line[1] = "%" /\ line[2] = "i"
    THEN name \o Replaced(SubSeq(line, 3, Len(line)), name)
    ELSE <<line[1]>> \o Replaced(Tail(line), name)

\* C18: instantiate replaces every "%i" of the line by the name and leaves
\* every other character, a '%' not followed by 'i' included, as it is and
\* in order; with an empty name the line is returned unchanged.
C18_Instantiate ==
    (call.fn = "instantiate" /\ rv.done /\ call.mem = "ok") =>
        rv.line = IF call.name = << >> THEN call.line
                  ELSE Replaced(call.line, call.name)

\* The same for names without a '%'.
C18_PlainNames ==
    (call.fn = "instantiate" /\ rv.done /\ call.mem = "ok"
        /\ \A k \in 1..Len(call.name) : call.name[k] # "%") =>
        rv.line = IF call.name = << >> THEN call.line
                  ELSE Replaced(call.line, call.name)

\* No call writes past the bytes it allocated.
C18_NoOverrun == (call.fn = "instantiate" /\ rv.done) => rv.line # OVERRUN

\* ------------------------------------------------- templates in a pass
\* A pass that has reached the loop over the globbed entries, finit.conf
\* not being there, with template files and a plain file in rcsd.
TemplateFiles ==
    {File("rcsd", "a.conf"), File("rcsd", "t@.conf"), File("rcsd", "t@n.conf"),
     File("rcsd", "t@N65.conf")}
TemplateLists ==
    {<<f>> : f \in TemplateFiles}
        \cup {<<File("rcsd", "t@.conf"), f>> : f \in TemplateFiles \ {File("rcsd", "t@.conf")}}

InitTemplate ==
    /\ pc = "layered"
    /\ phase = "layered"
    /\ rcv = 1
    /\ stack = << >>
    /\ rescue = FALSE
    /\ initial_rlimit \in InitTables
    /\ global_rlimit = initial_rlimit
    /\ cgroup_current = ""
    /\ env_list = << >>
    /\ environ = [k \in EnvNames |->
                     CASE k = "PATH"  -> PATH_STDPATH
                       [] k = "SHELL" -> PATH_BSHELL
                       [] k \in {"LOGNAME", "USER"} -> "root"
                       [] OTHER -> "unset"]
    /\ cgroups = [g \in CgroupNames |-> "absent"]
    /\ svcs = [n \in SvcNames |-> "absent"]
    /\ gl \in TemplateLists
    /\ gi = 1
    /\ conf_change_list = << >>
    /\ ret = "none"
    /\ nread = 0
    /\ pass = [NewPass EXCEPT
                  !.calls = {"cgroup_mark_all", "svc_mark_dynamic", "setrlimit"},
                  !.primGlobal = initial_rlimit, !.expGlobal = initial_rlimit]
    /\ lastReg = NoReg
    /\ trail = << >>
    /\ call = NoCall
    /\ rv = NoRv

NextTemplate ==
    \/ conf_reload_skip_entry
    \/ conf_reload_parse_entry
    \/ conf_reload_entry_ret
    \/ parse_include
    \/ parse_unit
    \/ parse_rlimit
    \/ parse_cgroup
    \/ parse_cgroup_current
    \/ parse_env
    \/ parse_malformed
    \/ parse_eof

SpecTemplate == InitTemplate /\ [][NextTemplate]_vars

\* The instance segment of a file name: what stands between its '@' and
\* its ".conf".
HasSegment(file) == file.base \in {"t@.conf", "t@n.conf", "t@N65.conf"}
InstanceOf(file) ==
    CASE file.base = "t@n.conf"   -> <<"n">>
      [] file.base = "t@N65.conf" -> Run("n", 65)
      [] OTHER                    -> << >>
First64(str) == SubSeq(str, 1, Min(Len(str), 64))

\* parse_conf is entered for the entry the loop stands at.
EntryParsed == pc = "layered" /\ gi <= Len(gl) /\ pc' # "layered"
\* The step leaves lines, units, limits, cgroup context and environment as
\* they are and parse_conf has returned 0.
ReturnsZeroUntouched ==
    /\ pc' = "ret" /\ rcv' = 0 /\ stack' = << >>
    /\ nread' = nread /\ svcs' = svcs /\ pass'.regd = pass.regd
    /\ pass'.parsed = pass.parsed
    /\ global_rlimit' = global_rlimit /\ cgroup_current' = cgroup_current
    /\ environ' = environ /\ env_list' = env_list

\* A unit registered from a file with an instance segment was registered
\* under its line with "%i" instantiated by seg(file).
RegisteredInstantiated(seg(_)) ==
    (lastReg.type # "none" /\ HasSegment(lastReg.file)) =>
        lastReg.name = Str(instantiate(Chars(lastReg.raw), seg(lastReg.file), lastReg.mem))

WholeSegment(file) == InstanceOf(file)
CutSegment(file) == First64(InstanceOf(file))

\* C19 as stated, second half: in a file with a non-empty instance segment
\* every line is instantiated with that segment before it is classified.
C19_WholeSegment ==
    /\ RegisteredInstantiated(WholeSegment)
    /\ \A k \in 1..Len(stack) :
           HasSegment(stack[k].file) => stack[k].name = InstanceOf(stack[k].file)

\* C19, amended: parse_conf on a file whose instance segment is empty reads
\* no line, registers no unit, changes no limit, cgroup context or
\* environment and returns 0; no file with an empty segment is ever read;
\* with a non-empty segment every line goes through instantiate with the
\* first 64 characters of the segment before it is classified.
C19_SkipOrInstantiate ==
    /\ [](/\ RegisteredInstantiated(CutSegment)
          /\ \A k \in 1..Len(stack) :
                 HasSegment(stack[k].file)
                     => /\ stack[k].name = First64(InstanceOf(stack[k].file))
                        /\ stack[k].name # << >>)
    /\ [][(EntryParsed /\ HasSegment(gl[gi]) /\ InstanceOf(gl[gi]) = << >>)
              => ReturnsZeroUntouched]_vars

C19_Witness ==
    /\ gl = <<File("rcsd", "t@.conf"), File("rcsd", "t@n.conf")>>
    /\ gi = 2
    /\ pass.parsed = <<File("rcsd", "t@n.conf")>>
    /\ lastReg.raw = "u%i" /\ lastReg.mem = "ok"
    /\ lastReg.name = "un"

StaticDone == call.fn = "parse_static" /\ rv.done
\* The commands run by the call.
Ran == SubSeq(rv.st.cmds, Len(call.st.cmds) + 1, Len(rv.st.cmds))

\* C20: outside the bootstrap level no line changes the hostname, the
\* network script, the rcsd path, the runparts path or the configured
\* runlevel, and none runs mknod or a module load; in the bootstrap level
\* a hostname, network, rcsd or runparts line sets its setting to its
\* argument, a runlevel line with a level of 1 to 9 other than 6 sets the
\* configured runlevel to it, a mknod line runs mknod, and a module line
\* runs the load of a module that is named and not loaded yet.
C20_BootstrapOnly ==
    StaticDone =>
        IF call.st.runlevel # INIT_LEVEL
        THEN rv.st = call.st
        ELSE LET cmd == call.line.cmd
                 arg == call.line.arg
             IN  /\ cmd \in {"host", "hostname"} => rv.st.hostname = arg
                 /\ cmd = "network" => rv.st.network = arg
                 /\ cmd = "rcsd" => rv.st.finit_rcsd = arg
                 /\ cmd = "runparts" => rv.st.runparts = arg
                 /\ (cmd = "runlevel" /\ arg \in {"1", "3", "9"})
                        => rv.st.cfglevel = NumeralValue(arg)
                 /\ cmd = "mknod" => Ran = <<<<"mknod", arg>>>>
                 /\ (cmd = "module" /\ arg # "" /\ ~call.found)
                        => Ran = <<<<"modprobe", arg>>>>
                 /\ cmd \in StaticCmds \ {"other"} => rv.ret = 0

C20_Witness ==
    /\ StaticDone
    /\ call.st.runlevel = 2
    /\ call.line = [cmd |-> "hostname", arg |-> "x1"]
    /\ rv.st.hostname = "h0"
    /\ rv.ret = 1

\* Tokens with one comma between each two.
CommaJoined(toks) ==
    [k \in 1..(IF toks = << >> THEN 0 ELSE 2 * Len(toks) - 1) |->
        IF k % 2 = 1 THEN toks[(k + 1) \div 2] ELSE ","]

\* C21: conf_parse_cgroup makes no call to the cgroup manager when the name
\* is missing or has a '/' or ".." in it, and else exactly one call, with
\* that name, the tokens after it joined in order by single commas, and
\* the top-level flag 0.
C21_OneCgroupCall ==
    (call.fn = "conf_parse_cgroup" /\ rv.done) =>
        IF call.line = << >> \/ Head(call.line) \in {"a/b", "a..b", ".."}
        THEN rv.calls = << >>
        ELSE rv.calls = <<[name |-> Head(call.line),
                           config |-> CommaJoined(Tail(call.line)),
                           is_top |-> 0]>>

C21_Witness ==
    /\ call.fn = "conf_parse_cgroup" /\ rv.done
    /\ call.line = <<"g.1", "cpu.weight:100", "mem.max:1G">>
    /\ rv.calls = <<[name |-> "g.1", config |-> <<"cpu.weight:100", ",", "mem.max:1G">>,
                     is_top |-> 0]>>

\* C22: in rescue mode a pass hands only the rescue file to the parser,
\* never the primary file or a layered entry, does not apply the global
\* limits to the process, registers the fallback console unit exactly when
\* the rescue file could not be opened, and has removed the stale cgroups
\* and drained the change set when it returns.
C22_RescuePass ==
    (rescue /\ phase # "init") =>
        /\ \A k \in 1..Len(pass.parsed) : pass.parsed[k] = RESCUE_CONF
        /\ Len(pass.parsed) <= 1
        /\ phase \notin {"primary", "layered"}
        /\ gl = << >>
        /\ stack # << >> => stack[1].file = RESCUE_CONF
        /\ "setrlimit" \notin pass.calls
        /\ pc \in {"done", "returned"}
               => (RescueTty \in pass.regd <=> ~pass.topOpened)
        /\ pc = "returned"
               => /\ {"cgroup_cleanup", "drop_changes"} \subseteq pass.calls
                  /\ \A g \in CgroupNames : cgroups[g] # "stale"
                  /\ conf_change_list = << >>

C22_Witness ==
    /\ rescue /\ pc = "returned"
    /\ pass.parsed = <<RESCUE_CONF>>
    /\ nread > 0
    /\ pass.drained > 0
    /\ pass.swept # {}
    /\ RescueTty \notin pass.regd

\* C23: override resolution drops entry i of the combined list exactly when
\* entry i lies in the system directory and a later entry has its basename;
\* an entry of another directory is never dropped.
C23_DropsOnlyDefaults ==
    (call.fn = "conf_reload_overrides" /\ rv.done) =>
        \A i \in 1..Len(call.list) :
            i \in rv.dropped <=>
                /\ call.list[i].dir = "sys"
                /\ \E j \in (i + 1)..Len(call.list) :
                       call.list[j].base = call.list[i].base

\* C24: a layered entry handed to the parser is a regular file, or a symlink
\* that resolves to one, with a name ending in .conf; a directory, a symlink
\* to a directory, a dangling symlink or an inaccessible entry is never
\* parsed.
C24_OnlyRegularFiles ==
    (call.fn = "conf_reload_entry" /\ rv.done /\ rv.parsed) =>
        /\ call.kind \in {"file", "link_file"}
        /\ SubSeq(call.path, Len(call.path) - 4, Len(call.path)) = DotConf

\* C25: after conf_change_act succeeded for a path, and until the list is
\* drained, conf_changed returns 1 for that path, be it a regular file, a
\* symlink or a path that is no longer on disk; conf_changed returns 0 for a
\* path of which the list holds no record.
C25_ChangedAfterAct ==
    (call.fn = "conf_changed" /\ rv.done) =>
        /\ rv.act = 0 => rv.changed = 1
        /\ ~conf_find(call.list, IF call.r.ok THEN call.r.path ELSE call.path)
               => rv.before = 0

LineDone == call.fn = "parse_line" /\ rv.done

\* C26: a line that begins with the keyword of a static or dynamic directive
\* is never given as it stands to parse_env, in any runlevel and whether or
\* not the directive succeeds; only a line of no keyword creates or tracks
\* a variable through the fallback.
C26_KeywordsNeverFallBack ==
    (LineDone /\ call.line.cmd # "") =>
        /\ rv.by # "parse_env"
        /\ \A k \in 1..Len(rv.st.envs) :
               \/ rv.st.envs[k] # RawChars(call.line)
               \/ parse_env_key(rv.st.envs[k]) = NULL

\* A token that is a number of lo to hi.
InRange(token, lo, hi) ==
    token \in Numerals /\ NumeralValue(token) >= lo /\ NumeralValue(token) <= hi

\* C27: a runlevel, reboot-delay or service-interval line whose value is no
\* number or lies outside 1 to 9 without 6, 0 to 60 or 0 to 1440 leaves the
\* configured runlevel, the reboot delay or the poll interval as it was.
C27_BadValueIgnored ==
    LineDone =>
        LET cmd == call.line.cmd
            arg == call.line.arg
        IN  /\ (cmd = "runlevel" /\ ~(InRange(arg, 1, 9) /\ arg # "6"))
                   => rv.st.cfglevel = call.st.cfglevel
            /\ (cmd = "reboot-delay" /\ ~InRange(arg, 0, 60))
                   => rv.st.syncsec = call.st.syncsec
            /\ (cmd = "service-interval" /\ ~InRange(arg, 0, 1440))
                   => rv.st.service_interval = call.st.service_interval

\* ------------------------------------------------------- conf_iwatch_read
\* sizeof(struct inotify_event)
sizeof_ev == 16
\* Events in the buffer, and the lengths of their name fields.
MaxEvents == 3
EventLens == {0, 4}
\* What an event in the buffer is: one with a zero mask, one whose watch
\* descriptor iwatch_find_by_wd() does not know, one whose path realpath()
\* cannot resolve for a reason other than ENOENT, or one conf_change_act
\* records.
EventKinds == {"nomask", "nowd", "fail", "ok"}
Events == [len : EventLens, kind : EventKinds, name : Paths]
Buffers == UNION {[1..n -> Events] : n \in 1..MaxEvents}

\* The offset in the buffer of event k and of the byte after it.
RECURSIVE EventStart(_, _)
EventStart(buf, k) ==
    IF k = 1 THEN 0 ELSE EventStart(buf, k - 1) + sizeof_ev + buf[k - 1].len
EventEnd(buf, k) == EventStart(buf, k) + sizeof_ev + buf[k].len

\* A check of the header alone.
truncated_header(off, len, sz) == off + sizeof_ev > sz

\* conf.c:1304-1309: the header or the name of the event at off reaches
\* past the sz bytes read.
truncated(off, len, sz) == off + sizeof_ev > sz \/ off + sizeof_ev + len > sz

\* conf.c:1303-1325: the loop from event k at offset off on; list is
\* conf_change_list and handed the events given to conf_change_act so far.
RECURSIVE iwatch_loop(_, _, _, _, _, _)
iwatch_loop(buf, sz, k, off, list, handed) ==
    IF ~(off < sz) THEN [list |-> list, handed |-> handed]
    ELSE IF truncated(off, buf[k].len, sz) THEN [list |-> list, handed |-> handed]
    ELSE LET ev == buf[k]
             next == off + sizeof_ev + ev.len
         IN  IF ev.kind \in {"nomask", "nowd"}
             THEN iwatch_loop(buf, sz, k + 1, next, list, handed)
             ELSE LET r == IF ev.kind = "fail" THEN Failed(ev.name, "EACCES")
                           ELSE Resolved(ev.name)
                      res == conf_change_act(list, ev.name, "IN_CREATE", r, TRUE)
                  IN  IF res.rc # 0
                      THEN [list |-> res.list, handed |-> Append(handed, k)]
                      ELSE iwatch_loop(buf, sz, k + 1, next, res.list,
                                       Append(handed, k))

\* conf_iwatch_read(fd), conf.c:1289-1328, when read() puts the first sz
\* bytes of buf into ev_buf; sz <= 0 is read() failing or giving nothing.
conf_iwatch_read(buf, sz, list) ==
    IF sz <= 0 THEN [ret |-> 0 - 1, list |-> list, handed |-> << >>]
    ELSE LET l == iwatch_loop(buf, sz, 1, 0, list, << >>)
         IN  [ret |-> 0, list |-> l.list, handed |-> l.handed]

IwatchCalls ==
    UNION {[fn : {"conf_iwatch_read"}, buf : {buf},
            sz : 0..EventEnd(buf, Len(buf))] : buf \in Buffers}

InitIwatch ==
    /\ ConfInit
    /\ call \in IwatchCalls
    /\ rv = NoRv

call_conf_iwatch_read ==
    /\ call.fn = "conf_iwatch_read"
    /\ ~rv.done
    /\ LET r == conf_iwatch_read(call.buf, call.sz, conf_change_list)
       IN  /\ conf_change_list' = r.list
           /\ rv' = [done |-> TRUE, ret |-> r.ret, handed |-> r.handed]
    /\ UNCHANGED <<pc, phase, rcv, stack, rescue, initial_rlimit,
                   global_rlimit, cgroup_current, env_list, environ, cgroups,
                   svcs, gl, gi, ret, nread, pass, lastReg, trail, call>>

NextIwatch == call_conf_iwatch_read

SpecIwatch == InitIwatch /\ [][NextIwatch]_vars

IwatchDone == call.fn = "conf_iwatch_read" /\ rv.done
Handed == {rv.handed[i] : i \in 1..Len(rv.handed)}
\* Event k lies wholly within the bytes read.
Complete(k) == EventEnd(call.buf, k) <= call.sz

LevelArgs == {k \in 1..Len(call.argv) : call.argv[k] \in {"3", "5"}}

\* C29: after conf_parse_cmdline, cmdlevel is the last argument that is a
\* bare integer of 1 to 9 other than 6, whatever arguments stand before or
\* after it, and 0 when there is no such argument.
C29_LastLevelWins ==
    (call.fn = "conf_parse_cmdline" /\ rv.done) =>
        IF LevelArgs = {} THEN rv.opts.cmdlevel = 0
        ELSE LET last == CHOOSE k \in LevelArgs : \A j \in LevelArgs : j <= k
             IN  rv.opts.cmdlevel = NumeralValue(call.argv[last])

\* C30: when a reload pass starts on the lines of the primary file or of
\* the rescue file the current cgroup is empty, whatever cgroup.NAME lines
\* the pass before or conf_init read; a unit the primary file declares
\* before any cgroup.NAME line of its own is registered with an empty
\* cgroup.
C30_FreshContext ==
    /\ (phase \in {"primary", "rescue"} /\ pc = "parse" /\ Len(stack) = 1
            /\ nread = 0)
           => cgroup_current = ""
    /\ (phase = "primary" /\ lastReg.name \in AllUnits /\ ~lastReg.scoped
            /\ lastReg.file = finit_conf /\ lastReg.ctx = "-")
           => lastReg.cg = ""

====
